---- MODULE Spec2Model ----
(***************************************************************************)
(* A model of sqlorm: the composite row reconstructor (resultset.py) and   *)
(* the connection pool / session / transaction manager (engine.py).        *)
(*                                                                         *)
(* Python values are modelled as follows.                                  *)
(*   - a dict is a function; the empty dict is EmptyDict;                  *)
(*   - a list is a sequence;                                               *)
(*   - column values are naturals, and None (SQL NULL) is the value None,  *)
(*     which lies outside the data domain;                                 *)
(*   - the bool True equals the int 1, as in Python (True == 1);           *)
(*   - a column name "a__b__c" is the sequence of its segments             *)
(*     <<"a", "b", "c">>, so that str.split(separator, 1) is (Head, Tail). *)
(***************************************************************************)
EXTENDS Integers, Sequences, FiniteSets, TLC

VARIABLES
    cursor,     \* the DB-API cursor of the result set: [rows, closed]
    rs,         \* the CompositeResultSet object
    emitted,    \* the rows the iteration over the result set has yielded
    rs_input,   \* the rows the cursor held at construction (history)
    engine,     \* the Engine object: [pooling, pool, active_conns, max_pool_conns]
    dbapi,      \* the driver: [created, closed], connections are 1..created
    last,       \* what the last call did (history): its arguments, the state
                \* before it, its result or exception, the driver calls it made
    thr,        \* the threads that call the engine concurrently: for each its
                \* position in the call, its locals and the connections it holds
    sessions,   \* the Session objects
    txs,        \* the Transaction objects
    stack,      \* session_context.stack, per thread
    frames,     \* the with-blocks each thread's program is in, innermost last
    pending,    \* the exception propagating in each thread, "none" if none
    act,        \* what the last session-level call did (history)
    steps,      \* the calls each thread's program has made
    callbacks,  \* the functions given to after_commit: the session each
                \* listens to, and what happened since (history)
    fn_arg,     \* the arguments of the call of a function that is checked alone
    fn_res      \* what that call returned, Pending before it has run

rsvars == <<cursor, rs, emitted, rs_input>>

poolvars == <<engine, dbapi>>

sessvars == <<sessions, txs, stack, frames, pending, act, steps, callbacks>>

fnvars == <<fn_arg, fn_res>>

vars == <<cursor, rs, emitted, rs_input, engine, dbapi, last, thr,
          sessions, txs, stack, frames, pending, act, steps, callbacks,
          fn_arg, fn_res>>

(***************************************************************************)
(* Bounds                                                                  *)
(***************************************************************************)
MaxRows == 3

\* connections the driver can create in one behaviour
MaxConns == 3

\* threads that share one engine
NumThreads == 2

\* Session objects alive at one time
MaxSessions == 2

\* Transaction objects alive at one time
MaxTxs == 2

\* with-blocks a thread nests
MaxDepth == 2

\* entries of a thread's session_context.stack
MaxCtx == 2

\* calls a thread's program makes
MaxSteps == 5

\* functions a program gives to after_commit
MaxCallbacks == 1

(***************************************************************************)
(* Python values                                                           *)
(***************************************************************************)
None == -1

PyTrue == 1

EmptyDict == [k \in {} |-> None]

\* the truth value of what CompositeRow.merge returns: "False" and "None"
\* (the value of a function that ends without a return) are both falsy
Truthy(rv) == rv = "True"

(***************************************************************************)
(* resultset.py: CompositionMap                                            *)
(***************************************************************************)
CompositionMap(nested, rowid, single) ==
    [nested |-> nested, rowid |-> rowid, single |-> single]

\* CompositionMap.get(path) for a one-segment path: a missing child map is
\* created with the defaults (no rowid, single=False)
MapGet(map, k) ==
    IF k \in DOMAIN map.nested THEN map.nested[k]
    ELSE CompositionMap(EmptyDict, "", FALSE)

(***************************************************************************)
(* resultset.py: split_composite_row                                       *)
(***************************************************************************)
RECURSIVE split_composite_row(_)
split_composite_row(row) ==
    LET composite == {p \in DOMAIN row : Len(p) > 1}
        sub(k) == [p \in {Tail(q) : q \in {x \in composite : x[1] = k}}
                      |-> row[<<k>> \o p]]
    IN  [row    |-> [c \in {p[1] : p \in (DOMAIN row) \ composite} |-> row[<<c>>]],
         nested |-> [k \in {p[1] : p \in composite} |->
                        IF \A p \in DOMAIN sub(k) : sub(k)[p] = None
                        THEN <<>>
                        ELSE <<split_composite_row(sub(k))>>]]

(***************************************************************************)
(* resultset.py: CompositeRow                                              *)
(***************************************************************************)
\* CompositeRow.__init__ with nested given. hash(row) of a dict raises
\* TypeError (split_composite_row returns dicts).
RECURSIVE CompositeRow(_, _, _)
CompositeRow(row, map, nested) ==
    LET is_composite == DOMAIN nested # {}
        hasherr == DOMAIN row # {} /\ is_composite /\ map.rowid = ""
        id == IF DOMAIN row = {} /\ is_composite THEN PyTrue
              ELSE IF is_composite
                   THEN (IF map.rowid # "" THEN row[map.rowid] ELSE None)
                   ELSE None
        kids == [k \in {x \in DOMAIN nested : nested[x] # <<>>} |->
                    <<CompositeRow(nested[k][1].row, MapGet(map, k), nested[k][1].nested)>>]
    IN  [row          |-> row,
         map          |-> map,
         is_composite |-> is_composite,
         id           |-> id,
         nested       |-> kids,
         err          |-> IF hasherr \/ \E k \in DOMAIN kids : kids[k][1].err # "none"
                          THEN "TypeError" ELSE "none"]

\* a constructor that takes every row for a composite one
NewCompositeRowForced(row, map) ==
    LET sp == split_composite_row(row)
    IN  [CompositeRow(sp.row, map, sp.nested) EXCEPT !.is_composite = TRUE]

\* CompositeRow(row, map, separator): nested is None, the row is split first
NewCompositeRow(row, map) ==
    LET sp == split_composite_row(row) IN CompositeRow(sp.row, map, sp.nested)

\* CompositeRow.merge: the result is [rv, self, err]: what the call returns
\* ("False", or "None" when the body ends without a return statement), self
\* after the call, and the exception it raises (other.nested[k] is a KeyError
\* when other has no group k).
RECURSIVE merge(_, _)
merge(self, other) ==
    IF self.id = None \/ (self.id # PyTrue /\ other.id # self.id)
    THEN [rv |-> "False", self |-> self, err |-> "none"]
    ELSE IF \E k \in DOMAIN self.nested : k \notin DOMAIN other.nested
    THEN [rv |-> "None", self |-> self, err |-> "KeyError"]
    ELSE LET tail(k) == self.nested[k][Len(self.nested[k])]
             olast(k) == other.nested[k][Len(other.nested[k])]
             m(k) == merge(tail(k), olast(k))
             rows(k) == [self.nested[k] EXCEPT ![Len(self.nested[k])] = m(k).self]
         IN  [rv   |-> "None",
              self |-> [self EXCEPT !.nested =
                           [k \in DOMAIN self.nested |->
                               IF ~Truthy(m(k).rv) THEN Append(rows(k), olast(k))
                               ELSE rows(k)]],
              err  |-> IF \E k \in DOMAIN self.nested : m(k).err # "none"
                       THEN "KeyError" ELSE "none"]

\* CompositeRow.compile, no loader configured
RECURSIVE compile(_)
compile(self) ==
    LET lst(k) == [i \in 1..Len(self.nested[k]) |-> compile(self.nested[k][i])]
    IN  [k \in (DOMAIN self.row) \cup (DOMAIN self.nested) |->
            IF k \in DOMAIN self.nested
            THEN (IF MapGet(self.map, k).single /\ lst(k) # <<>> THEN lst(k)[1] ELSE lst(k))
            ELSE self.row[k]]

(***************************************************************************)
(* resultset.py: CompositeResultSet                                        *)
(***************************************************************************)
\* a cursor row whose columns are all plain, as the mapping it is
RowDict(row) == [c \in {p[1] : p \in DOMAIN row} |-> row[<<c>>]]

\* CompositeResultSet.__init__
NewCompositeResultSet(map) ==
    [cursor |-> TRUE, auto_close_cursor |-> TRUE, map |-> map, current |-> <<>>,
     disable_composition |-> FALSE, exc |-> "none", done |-> FALSE]

\* CompositeResultSet.fetch: the while loop, to its return or exception.
\* The result is [rs, cursor, rv, exc]; rv is <<>> for None, else <<row>>.
RECURSIVE fetch(_, _)
fetch(r, c) ==
    IF ~r.cursor THEN [rs |-> r, cursor |-> c, rv |-> <<>>, exc |-> "none"]
    ELSE IF c.rows = <<>>
    THEN [rs     |-> [r EXCEPT !.cursor = FALSE],
          cursor |-> IF r.auto_close_cursor THEN [c EXCEPT !.closed = TRUE] ELSE c,
          rv     |-> IF r.current # <<>> THEN <<compile(r.current[1])>> ELSE <<>>,
          exc    |-> "none"]
    ELSE LET c2  == [c EXCEPT !.rows = Tail(@)]
             row == NewCompositeRow(Head(c.rows), r.map)
             m   == merge(r.current[1], row)
         IN  IF r.disable_composition
             THEN [rs |-> r, cursor |-> c2, rv |-> <<RowDict(Head(c.rows))>>, exc |-> "none"]
             ELSE IF row.err # "none"
             THEN [rs |-> r, cursor |-> c2, rv |-> <<>>, exc |-> row.err]
             ELSE IF r.current = <<>>
             THEN (IF ~row.is_composite
                   THEN [rs |-> [r EXCEPT !.disable_composition = TRUE], cursor |-> c2,
                         rv |-> <<compile(row)>>, exc |-> "none"]
                   ELSE fetch([r EXCEPT !.current = <<row>>], c2))
             ELSE IF m.err # "none"
             THEN [rs |-> [r EXCEPT !.current = <<m.self>>], cursor |-> c2,
                   rv |-> <<>>, exc |-> m.err]
             ELSE IF ~Truthy(m.rv)
             THEN [rs |-> [r EXCEPT !.current = <<row>>], cursor |-> c2,
                   rv |-> <<compile(m.self)>>, exc |-> "none"]
             ELSE fetch([r EXCEPT !.current = <<m.self>>], c2)

(***************************************************************************)
(* resultset.py: ResultSet                                                 *)
(***************************************************************************)
\* ResultSet.__init__, no loader
NewResultSet == [cursor |-> TRUE, auto_close_cursor |-> TRUE]

\* ResultSet.fetch: the result is [cursor, rv]; rv is <<>> for None, else
\* <<row>>, the driver's row as it is (self.cursor is kept on exhaustion)
ResultSetFetch(r, c) ==
    IF ~r.cursor THEN [cursor |-> c, rv |-> <<>>]
    ELSE IF c.rows = <<>>
    THEN [cursor |-> IF r.auto_close_cursor THEN [c EXCEPT !.closed = TRUE] ELSE c,
          rv     |-> <<>>]
    ELSE [cursor |-> [c EXCEPT !.rows = Tail(@)], rv |-> <<Head(c.rows)>>]

\* list(ResultSet(cursor)): __next__ until fetch returns None
RECURSIVE ResultSetIter(_, _)
ResultSetIter(r, c) ==
    LET f == ResultSetFetch(r, c)
    IN  IF f.rv = <<>> THEN <<>> ELSE f.rv \o ResultSetIter(r, f.cursor)

(***************************************************************************)
(* engine.py: Engine, the connection pool                                  *)
(*                                                                         *)
(* A handler is an operator from a world w to the world after the call:    *)
(*   w.engine, w.dbapi  the engine and the driver                          *)
(*   w.rv               what the call returns                              *)
(*   w.exc              the exception it raises, "none" when it returns    *)
(*   w.calls            the driver calls it made, in order                 *)
(***************************************************************************)
\* max_pool_conns of the pooled engine of test_pool
PoolCap == 2

\* Engine.__init__: pool = [] if pool else False
NewEngine(pool, max_pool_conns) ==
    [pooling |-> pool, pool |-> <<>>, active_conns |-> <<>>,
     max_pool_conns |-> max_pool_conns]

NewDbapi == [created |-> 0, closed |-> {}]

SeqSet(q) == {q[i] : i \in 1..Len(q)}

\* list.remove(x): the first occurrence goes
RECURSIVE ListRemove(_, _)
ListRemove(q, x) ==
    IF q = <<>> THEN <<>>
    ELSE IF Head(q) = x THEN Tail(q)
    ELSE <<Head(q)>> \o ListRemove(Tail(q), x)

Raise(w, e) == [w EXCEPT !.exc = e]

NoTx == [is |-> FALSE, virtual |-> FALSE, nested |-> FALSE, failed |-> FALSE,
         ended |-> FALSE]

\* a driver or pool call, as recorded in w.calls: conn.commit(), conn.rollback()
\* or engine.disconnect(conn), whether it returned (ok), the method that made
\* it (via: "tx", "session" or "close") and the transaction it was made for
DriverCall(call, conn, ok, via, tx) ==
    [call |-> call, conn |-> conn, ok |-> ok, via |-> via, tx |-> tx]

\* no call yet
NoCall == [op |-> "none", arg |-> 0, flag |-> FALSE, exc |-> "none", rv |-> 0,
           pre |-> [engine |-> NewEngine(TRUE, PoolCap), dbapi |-> NewDbapi],
           prev |-> [op |-> "none", arg |-> 0, flag |-> FALSE, exc |-> "none"]]

Threads == 1..NumThreads

IdleThread == [pc |-> "idle", op |-> "none", conn |-> 0, snap |-> <<>>, held |-> {},
               exc |-> "none"]

\* the engine and the threads when a behaviour does not use them
IdlePool == engine = NewEngine(TRUE, PoolCap) /\ dbapi = NewDbapi /\ last = NoCall

IdleThreads == thr = [t \in Threads |-> IdleThread]

\* Engine._connect: connection_factory(dbapi)
EngineNewConn(w) ==
    [w EXCEPT !.dbapi.created = @ + 1, !.rv = w.dbapi.created + 1]

\* Engine.connect with the capacity test off by one (<= for <)
EngineConnectOffByOne(w, from_pool) ==
    IF ~from_pool \/ ~w.engine.pooling THEN EngineNewConn(w)
    ELSE IF w.engine.pool # <<>>
    THEN [w EXCEPT !.engine.pool = Tail(@),
                   !.engine.active_conns = Append(@, Head(w.engine.pool)),
                   !.rv = Head(w.engine.pool)]
    ELSE IF w.engine.max_pool_conns = 0
            \/ Len(w.engine.active_conns) <= w.engine.max_pool_conns
    THEN [EngineNewConn(w) EXCEPT !.engine.active_conns = Append(@, w.dbapi.created + 1)]
    ELSE Raise(w, "EngineError")

\* Engine.connect(from_pool)
EngineConnect(w, from_pool) ==
    IF ~from_pool \/ ~w.engine.pooling THEN EngineNewConn(w)
    ELSE IF w.engine.pool # <<>>
    THEN [w EXCEPT !.engine.pool = Tail(@),
                   !.engine.active_conns = Append(@, Head(w.engine.pool)),
                   !.rv = Head(w.engine.pool)]
    ELSE IF w.engine.max_pool_conns = 0
            \/ Len(w.engine.active_conns) < w.engine.max_pool_conns
    THEN [EngineNewConn(w) EXCEPT !.engine.active_conns = Append(@, w.dbapi.created + 1)]
    ELSE Raise(w, "EngineError")

\* Engine._close
EngineClose(w, conn) == [w EXCEPT !.dbapi.closed = @ \cup {conn}]

\* Engine.disconnect that pools a connection whether it is active or not
EngineDisconnectUntracked(w, conn, force) ==
    IF force \/ ~w.engine.pooling THEN EngineClose(w, conn)
    ELSE [w EXCEPT !.engine.active_conns = ListRemove(@, conn),
                   !.engine.pool = Append(@, conn)]

\* Engine.disconnect(conn, force)
EngineDisconnect(w, conn, force) ==
    IF force \/ ~w.engine.pooling THEN EngineClose(w, conn)
    ELSE IF conn \in SeqSet(w.engine.active_conns)
    THEN [w EXCEPT !.engine.active_conns = ListRemove(@, conn),
                   !.engine.pool = Append(@, conn)]
    ELSE Raise(w, "EngineError")

\* Engine.disconnect_all
EngineDisconnectAll(w) ==
    IF ~w.engine.pooling THEN w
    ELSE [w EXCEPT !.dbapi.closed = @ \cup SeqSet(w.engine.pool)
                                      \cup SeqSet(w.engine.active_conns),
                   !.engine.pool = <<>>,
                   !.engine.active_conns = <<>>]


(***************************************************************************)
(* engine.py: Session and Transaction                                      *)
(*                                                                         *)
(* The world of these handlers has, besides the engine and the driver,     *)
(*   w.sessions, w.txs   the Session and Transaction objects               *)
(*   w.ctx               session_context.stack of the calling thread       *)
(*   w.full              no object or connection is left within the bounds *)
(*   w.thread            the calling thread; a session records the thread  *)
(*                       that made it as its owner (history)               *)
(* ok says whether the driver's conn.commit() / conn.rollback() returns or *)
(* raises.                                                                 *)
(***************************************************************************)
SessionIds == 1..MaxSessions

TxIds == 1..MaxTxs

\* engine is the Engine object a session was made by: 1 is the engine of the
\* variable engine, 2 another Engine object (0: the slot is free)
FreeSession == [live |-> FALSE, virtual_tx |-> FALSE, conn |-> 0,
                transactions |-> <<>>, ended |-> FALSE, owner |-> 0, engine |-> 0]

\* the other Engine object keeps no pool: Engine(..., pool=False)
OtherEngine == NewEngine(FALSE, PoolCap)

\* a method of the engine of session s runs on its own pool; OtherEngine has
\* no pool for it to change
OnEngineOf(w, s, w1) ==
    IF w.sessions[s].engine = 2 THEN [w1 EXCEPT !.engine = w.engine] ELSE w1

EngineOf(w, s) ==
    IF w.sessions[s].engine = 2 THEN [w EXCEPT !.engine = OtherEngine] ELSE w

FreeTx == [live |-> FALSE, session |-> 0, virtual |-> FALSE, ended |-> FALSE,
           nested |-> FALSE, failed |-> FALSE]

NoAct == [op |-> "none", kind |-> "none", sess |-> 0, made |-> FALSE, virtual |-> FALSE,
          excIn |-> "none", excOut |-> "none", calls |-> <<>>, tx |-> NoTx,
          pre |-> [conn |-> 0, depth |-> 0, ended |-> FALSE, ctx |-> <<>>,
                   engine |-> NewEngine(TRUE, PoolCap), dbapi |-> NewDbapi,
                   conns |-> [s \in 1..MaxSessions |-> 0],
                   depth0 |-> 0, ctx0 |-> <<>>],
          post |-> [conn |-> 0, depth |-> 0, ended |-> FALSE, ctx |-> <<>>]]

CallbackIds == 1..MaxCallbacks

\* a function given to after_commit: sender is the session its listeners are
\* connected for (0: not given yet), connected says whether they still are.
\* History: runs counts its calls; commits the times conn.commit() returned
\* for the sender since the registration; rolled says that Session.rollback()
\* returned for the sender before the first of these commits, and
\* rolledback that conn.rollback() did.
FreeCallback == [sender |-> 0, connected |-> FALSE, runs |-> 0, commits |-> 0,
                 rolled |-> FALSE, rolledback |-> FALSE]

\* the call of a function that is checked alone has not run yet
Pending == [done |-> FALSE]

\* no function is checked alone
IdleFn == fn_arg = "none" /\ fn_res = Pending

\* the sessions and transactions when a behaviour does not use them
IdleSessions ==
    /\ sessions = [s \in SessionIds |-> FreeSession]
    /\ txs = [x \in TxIds |-> FreeTx]
    /\ stack = [t \in Threads |-> <<>>]
    /\ frames = [t \in Threads |-> <<>>]
    /\ pending = [t \in Threads |-> "none"]
    /\ act = NoAct
    /\ steps = [t \in Threads |-> 0]
    /\ callbacks = [k \in CallbackIds |-> FreeCallback]

Top(q) == q[Len(q)]

Front(q) == SubSeq(q, 1, Len(q) - 1)

Full(w) == [w EXCEPT !.full = TRUE, !.exc = "Full"]

\* the transaction x as the history records it
TxInfo(w, x) ==
    [is |-> TRUE, virtual |-> w.txs[x].virtual, nested |-> w.txs[x].nested,
     failed |-> w.txs[x].failed, ended |-> w.txs[x].ended]

\* _SessionContext.push
CtxPush(w, s) == [w EXCEPT !.ctx = Append(@, s)]

\* _SessionContext.pop: list.pop() raises IndexError on an empty list
CtxPop(w) ==
    IF w.ctx = <<>> THEN Raise(w, "IndexError") ELSE [w EXCEPT !.ctx = Front(@)]

\* Engine.make_session: Session(engine=self, dbapi_conn=None, auto_close_conn=True)
MakeSession(w, virtual_tx) ==
    IF \A s \in SessionIds : w.sessions[s].live THEN Full(w)
    ELSE LET s == CHOOSE i \in SessionIds :
                     ~w.sessions[i].live /\ \A j \in 1..(i - 1) : w.sessions[j].live
         IN  [w EXCEPT !.sessions[s] = [FreeSession EXCEPT !.live = TRUE,
                                                           !.virtual_tx = virtual_tx,
                                                           !.owner = w.thread,
                                                           !.engine = w.eng],
                       !.rv = s]

\* Session.connect
SessionConnect(w, s) ==
    IF w.sessions[s].conn # 0 THEN [w EXCEPT !.rv = w.sessions[s].conn]
    ELSE LET w1 == OnEngineOf(w, s, EngineConnect(EngineOf(w, s), TRUE))
         IN  IF w1.exc # "none" THEN w1
             ELSE IF w1.dbapi.created > MaxConns THEN Full(w)
             ELSE [w1 EXCEPT !.sessions[s].conn = w1.rv]

\* Session.after_commit.send(session), conn.commit() having returned: the
\* listeners connected for this sender run; commit_listener calls the function
\* and disconnects both. The history counts no further than the second commit.
AfterCommitSend(w, s) ==
    [w EXCEPT !.callbacks =
        [k \in CallbackIds |->
            LET cb == w.callbacks[k]
                n  == IF cb.commits < 2 THEN cb.commits + 1 ELSE cb.commits
            IN  IF cb.sender # s THEN cb
                ELSE IF cb.connected
                THEN [cb EXCEPT !.commits = n, !.runs = @ + 1, !.connected = FALSE]
                ELSE [cb EXCEPT !.commits = n]]]

\* Session.after_rollback.send(session), conn.rollback() having returned:
\* rollback_listener disconnects both
AfterRollbackSend(w, s) ==
    [w EXCEPT !.callbacks =
        [k \in CallbackIds |->
            LET cb == w.callbacks[k]
            IN  IF cb.sender # s THEN cb
                ELSE [cb EXCEPT !.connected = FALSE,
                                !.rolledback = @ \/ cb.commits = 0]]]

\* Session.rollback() has returned (history)
RolledBack(w, s) ==
    [w EXCEPT !.callbacks =
        [k \in CallbackIds |->
            LET cb == w.callbacks[k]
            IN  IF cb.sender # s THEN cb
                ELSE [cb EXCEPT !.rolled = @ \/ cb.commits = 0]]]

\* Session.commit that connects a session that has no connection
SessionCommitEager(w, s, ok, via, tx) ==
    IF w.sessions[s].ended THEN Raise(w, "SessionEndedError")
    ELSE LET w0 == SessionConnect(w, s)
             w1 == [w0 EXCEPT !.calls =
                        Append(@, DriverCall("commit", w0.sessions[s].conn, ok, via, tx))]
         IN  IF w0.exc # "none" THEN w0
             ELSE IF ok THEN AfterCommitSend(w1, s) ELSE Raise(w1, "DriverError")

\* Session.commit (no before-commit receiver is connected)
SessionCommit(w, s, ok, via, tx) ==
    IF w.sessions[s].ended THEN Raise(w, "SessionEndedError")
    ELSE IF w.sessions[s].conn = 0 THEN w
    ELSE LET w1 == [w EXCEPT !.calls =
                        Append(@, DriverCall("commit", w.sessions[s].conn, ok, via, tx))]
         IN  IF ok THEN AfterCommitSend(w1, s) ELSE Raise(w1, "DriverError")

\* Session.rollback (no before-rollback receiver is connected)
SessionRollback(w, s, ok, via, tx) ==
    IF w.sessions[s].ended THEN Raise(w, "SessionEndedError")
    ELSE IF w.sessions[s].conn = 0 THEN RolledBack(w, s)
    ELSE LET w1 == [w EXCEPT !.calls =
                        Append(@, DriverCall("rollback", w.sessions[s].conn, ok, via, tx))]
         IN  IF ok THEN RolledBack(AfterRollbackSend(w1, s), s) ELSE Raise(w1, "DriverError")

\* Session.close of an engine session (auto_close_conn is True)
SessionClose(w, s, ok) ==
    LET c  == w.sessions[s].conn
        w1 == SessionRollback(w, s, ok, "close", NoTx)
        w2 == OnEngineOf(w, s, EngineDisconnect(EngineOf(w1, s), c, FALSE))
        w3 == [w2 EXCEPT !.calls = Append(@, DriverCall("disconnect", c, w2.exc = "none",
                                                        "close", NoTx))]
    IN  IF c = 0 THEN [w EXCEPT !.sessions[s].ended = TRUE]
        ELSE IF w1.exc # "none" THEN w1
        ELSE IF w3.exc # "none" THEN w3
        ELSE [w3 EXCEPT !.sessions[s].conn = 0, !.sessions[s].ended = TRUE]

\* Session.__enter__(virtual)
SessionEnter(w, s, virtual) ==
    IF w.sessions[s].ended THEN Raise(w, "SessionEndedError")
    ELSE IF \A x \in TxIds : w.txs[x].live THEN Full(w)
    ELSE LET stk == w.sessions[s].transactions
             w1  == IF stk = <<>> THEN CtxPush(w, s) ELSE w
             x   == CHOOSE i \in TxIds :
                        ~w.txs[i].live /\ \A j \in 1..(i - 1) : w.txs[j].live
         IN  [w1 EXCEPT !.txs[x] = [live |-> TRUE, session |-> s,
                                    virtual |-> virtual \/ w.sessions[s].virtual_tx
                                                    \/ stk # <<>>,
                                    ended |-> FALSE, nested |-> stk # <<>>,
                                    failed |-> FALSE],
                        !.sessions[s].transactions = Append(@, x),
                        !.rv = x]

\* Transaction.commit
TxCommit(w, x, ok) ==
    IF w.txs[x].ended THEN Raise(w, "TransactionEndedError")
    ELSE LET w1 == IF ~w.txs[x].virtual
                   THEN SessionCommit(w, w.txs[x].session, ok, "tx", TxInfo(w, x))
                   ELSE w
         IN  IF w1.exc # "none" THEN w1 ELSE [w1 EXCEPT !.txs[x].ended = TRUE]

\* Transaction.rollback
TxRollback(w, x, ok) ==
    IF w.txs[x].ended THEN Raise(w, "TransactionEndedError")
    ELSE LET w1 == IF ~w.txs[x].virtual
                   THEN SessionRollback(w, w.txs[x].session, ok, "tx", TxInfo(w, x))
                   ELSE w
         IN  IF w1.exc # "none" THEN w1 ELSE [w1 EXCEPT !.txs[x].ended = TRUE]

\* Transaction.__exit__(exc_type, ...)
TxExit(w, x, excIn, ok) ==
    IF excIn = "none" THEN TxCommit(w, x, ok) ELSE TxRollback(w, x, ok)

\* Transaction.cursor(stmt) / Transaction.execute(stmt), no receiver connected;
\* runs says whether the driver's cursor.execute returns or raises
TxExecute(w, x, runs) ==
    IF w.txs[x].ended THEN Raise(w, "TransactionEndedError")
    ELSE LET w1 == SessionConnect(w, w.txs[x].session)
         IN  IF w1.exc # "none" THEN w1
             ELSE IF runs THEN w1
             ELSE Raise([w1 EXCEPT !.txs[x].failed = TRUE], "ExecError")

\* Session.__exit__(exc_type, ...): list.pop() raises IndexError on an empty list
SessionExit(w, s, excIn, ok) ==
    IF w.sessions[s].transactions = <<>> THEN Raise(w, "IndexError")
    ELSE LET x  == Top(w.sessions[s].transactions)
             w1 == [w EXCEPT !.sessions[s].transactions = Front(@)]
             w2 == TxExit(w1, x, excIn, ok)
         IN  IF w2.exc # "none" THEN w2
             ELSE IF w2.sessions[s].transactions = <<>> THEN CtxPop(w2)
             ELSE w2

\* Session.virtual_tx_ctx, from the yield on: the exception that leaves the
\* generator is w.exc ("none": the block's own exception, if any, is not
\* replaced)
VirtualTxCtxExit(w, s, excIn, ok) ==
    LET w1 == SessionExit(w, s, excIn, ok)
        \* except Exception as e: self.__exit__(type(e), e, None); raise
        w2 == SessionExit([w1 EXCEPT !.exc = "none"], s, w1.exc, ok)
    IN  IF excIn # "none" THEN w1
        ELSE IF w1.exc = "none" THEN w1
        ELSE IF w2.exc # "none" THEN w2
        ELSE [w2 EXCEPT !.exc = w1.exc]

\* Engine.__enter__
EngineEnter(w) ==
    IF w.ctx # <<>> THEN SessionEnter(w, Top(w.ctx), FALSE)
    ELSE LET w1 == MakeSession(w, FALSE)
         IN  IF w1.exc # "none" THEN w1 ELSE SessionEnter(w1, w1.rv, FALSE)

\* Engine.__exit__: session_context.top is None on an empty stack
EngineExit(w, excIn, ok) ==
    IF w.ctx = <<>> THEN Raise(w, "AttributeError")
    ELSE LET s  == Top(w.ctx)
             w1 == SessionExit(w, s, excIn, ok)
         IN  IF w1.exc # "none" THEN w1
             ELSE IF w1.sessions[s].transactions = <<>> THEN SessionClose(w1, s, ok)
             ELSE w1

\* Engine.session(**kwargs), to the yield
EngineSessionEnter(w, virtual_tx) ==
    LET w1 == MakeSession(w, virtual_tx)
    IN  IF w1.exc # "none" THEN w1 ELSE CtxPush(w1, w1.rv)

\* Engine.session, from the yield on: session_context pops in its finally,
\* then session.close() runs in the outer finally, whatever was raised
EngineSessionExit(w, s, ok) ==
    LET w1 == CtxPop(w)
        w2 == SessionClose([w1 EXCEPT !.exc = "none"], s, ok)
    IN  IF w2.exc # "none" THEN w2 ELSE [w2 EXCEPT !.exc = w1.exc]

\* ensure_session(engine), to the yield; w.made says whether it opened a session
EnsureSessionEnter(w, withEngine) ==
    IF w.ctx # <<>> THEN [w EXCEPT !.rv = Top(w.ctx), !.made = FALSE]
    ELSE IF withEngine THEN [EngineSessionEnter(w, TRUE) EXCEPT !.made = TRUE]
    ELSE Raise(w, "MissingSessionError")

\* ensure_transaction(engine, virtual), to the yield: an exception of
\* sess.__enter__ leaves through ensure_session, which closes a session it made
EnsureTransactionEnter(w, withEngine, virtual, ok) ==
    LET w1 == EnsureSessionEnter(w, withEngine)
        s  == w1.rv
        w2 == SessionEnter(w1, s, virtual)
        w3 == EngineSessionExit([w2 EXCEPT !.exc = "none"], s, ok)
    IN  IF w1.exc # "none" THEN w1
        ELSE IF w2.exc = "none" THEN [w2 EXCEPT !.sess = s]
        ELSE IF ~w1.made THEN w2
        ELSE IF w3.exc # "none" THEN w3
        ELSE [w3 EXCEPT !.exc = w2.exc]

\* ensure_transaction, from the yield on
EnsureTransactionExit(w, s, made, virtual, excIn, ok) ==
    LET w1 == IF virtual THEN VirtualTxCtxExit(w, s, excIn, ok)
              ELSE SessionExit(w, s, excIn, ok)
        w2 == EngineSessionExit([w1 EXCEPT !.exc = "none"], s, ok)
    IN  IF ~made THEN w1
        ELSE IF w2.exc # "none" THEN w2
        ELSE [w2 EXCEPT !.exc = w1.exc]


(***************************************************************************)
(* The cursors the result set is run on                                    *)
(***************************************************************************)
IdVals == {1, 2}
KidVals == {None, 10, 11}

\* SELECT a.id, b.id AS kids__id FROM a LEFT JOIN b ...
JoinCols == {<<"id">>, <<"kids", "id">>}
JoinRows == {[p \in JoinCols |-> IF p = <<"id">> THEN i ELSE k] : i \in IdVals, k \in KidVals}
\* {self: a.id, nested: {kids: {rowid: kids.id, single: False}}}
JoinMap == CompositionMap([k \in {"kids"} |-> CompositionMap(EmptyDict, "id", FALSE)], "id", FALSE)

\* SELECT a.id FROM a
PlainCols == {<<"id">>}
PlainRows == {[p \in PlainCols |-> i] : i \in IdVals}

\* SELECT b.id AS kids__id FROM b
KidsCols == {<<"kids", "id">>}
KidsRows == {[p \in KidsCols |-> k] : k \in KidVals}

SeqsUpTo(S, n) == UNION {[1..l -> S] : l \in 0..n}

InitRS ==
    /\ rs_input \in SeqsUpTo(JoinRows, MaxRows) \cup SeqsUpTo(PlainRows, MaxRows)
                       \cup SeqsUpTo(KidsRows, MaxRows)
    /\ cursor = [rows |-> rs_input, closed |-> FALSE]
    /\ rs = NewCompositeResultSet(JoinMap)
    /\ emitted = <<>>
    /\ IdlePool
    /\ IdleThreads
    /\ IdleSessions
    /\ IdleFn

\* ResultSet.__next__: one step of iterating the result set, or one more
\* call once it has raised StopIteration
RsNext ==
    /\ rs.exc = "none"
    /\ \E f \in {fetch(rs, cursor)} :
           /\ cursor' = f.cursor
           /\ rs' = [f.rs EXCEPT !.exc = f.exc,
                                 !.done = (f.exc = "none" /\ f.rv = <<>>)]
           /\ emitted' = IF f.exc = "none" /\ f.rv # <<>> THEN Append(emitted, f.rv[1])
                         ELSE emitted
    /\ UNCHANGED <<rs_input, engine, dbapi, last, thr, sessvars, fnvars>>

NextRS == RsNext

SpecRS == InitRS /\ [][NextRS]_vars

\* a for loop over the result set calls __next__ until it raises
SpecRSFair == InitRS /\ [][NextRS]_vars /\ WF_vars(RsNext)

(***************************************************************************)
(* A cursor over three levels: parent -> kids -> toys                      *)
(***************************************************************************)
ToyVals == {100, 101, 102}

\* SELECT a.id, b.id AS kids__id, c.id AS kids__toys__id FROM a JOIN b JOIN c
DeepCols == {<<"id">>, <<"kids", "id">>, <<"kids", "toys", "id">>}
DeepRows == {[p \in DeepCols |-> IF p = <<"id">> THEN i
                                  ELSE IF p = <<"kids", "id">> THEN k ELSE y] :
                i \in IdVals, k \in KidVals \ {None}, y \in ToyVals}

DeepMap ==
    CompositionMap([k \in {"kids"} |->
                       CompositionMap([y \in {"toys"} |->
                                          CompositionMap(EmptyDict, "id", FALSE)],
                                      "id", FALSE)],
                   "id", FALSE)

InitRSDeep ==
    /\ rs_input \in SeqsUpTo(DeepRows, MaxRows)
    /\ cursor = [rows |-> rs_input, closed |-> FALSE]
    /\ rs = NewCompositeResultSet(DeepMap)
    /\ emitted = <<>>
    /\ IdlePool
    /\ IdleThreads
    /\ IdleSessions
    /\ IdleFn

SpecRSDeep == InitRSDeep /\ [][NextRS]_vars

(***************************************************************************)
(* tx.fetchcomposite(stmt) with no map, loader, model or nested given: the *)
(* map is CompositionMap.create([None, None]), which has no rowid          *)
(***************************************************************************)
DefaultMap == CompositionMap(EmptyDict, "", FALSE)

InitRSDefault ==
    /\ rs_input \in SeqsUpTo(JoinRows, MaxRows) \cup SeqsUpTo(PlainRows, MaxRows)
                       \cup SeqsUpTo(KidsRows, MaxRows)
    /\ cursor = [rows |-> rs_input, closed |-> FALSE]
    /\ rs = NewCompositeResultSet(DefaultMap)
    /\ emitted = <<>>
    /\ IdlePool
    /\ IdleThreads
    /\ IdleSessions
    /\ IdleFn

SpecRSDefault == InitRSDefault /\ [][NextRS]_vars

(***************************************************************************)
(* The engine used directly: connect, disconnect, disconnect_all           *)
(***************************************************************************)
PoolWorld == [engine |-> engine, dbapi |-> dbapi, rv |-> 0, exc |-> "none", calls |-> <<>>]

\* the call op(arg, flag) took the world to w
PoolCall(op, arg, flag, w) ==
    /\ w.dbapi.created <= MaxConns
    /\ engine' = w.engine
    /\ dbapi' = w.dbapi
    /\ last' = [op |-> op, arg |-> arg, flag |-> flag, exc |-> w.exc, rv |-> w.rv,
                pre |-> [engine |-> engine, dbapi |-> dbapi],
                prev |-> [op |-> last.op, arg |-> last.arg, flag |-> last.flag,
                          exc |-> last.exc]]
    /\ UNCHANGED <<rsvars, thr, sessvars, fnvars>>

\* the result set when a behaviour does not use it
IdleRS ==
    /\ rs_input = <<>>
    /\ cursor = [rows |-> <<>>, closed |-> FALSE]
    /\ rs = NewCompositeResultSet(JoinMap)
    /\ emitted = <<>>

InitPool ==
    /\ IdleRS
    /\ IdleThreads
    /\ IdleSessions
    /\ IdleFn
    /\ engine \in {NewEngine(p, m) : p \in BOOLEAN, m \in {0, PoolCap}}
    /\ dbapi = NewDbapi
    /\ last = [NoCall EXCEPT !.pre.engine = engine]

\* conn = engine.connect(from_pool)
Connect ==
    \E from_pool \in BOOLEAN :
        PoolCall("connect", 0, from_pool, EngineConnect(PoolWorld, from_pool))

\* engine.disconnect(conn, force), for a connection the caller got earlier
Disconnect ==
    \E conn \in 1..dbapi.created, force \in BOOLEAN :
        PoolCall("disconnect", conn, force, EngineDisconnect(PoolWorld, conn, force))

\* engine.disconnect_all()
DisconnectAll ==
    PoolCall("disconnect_all", 0, FALSE, EngineDisconnectAll(PoolWorld))

NextPool == Connect \/ Disconnect \/ DisconnectAll

SpecPool == InitPool /\ [][NextPool]_vars


(***************************************************************************)
(* The engine called from several threads. engine.py takes no lock, so a   *)
(* call is a sequence of steps, each one list operation or one test (what  *)
(* the interpreter runs without switching threads), and the steps of the   *)
(* threads interleave.                                                     *)
(***************************************************************************)
InitConc ==
    /\ IdleRS
    /\ engine = NewEngine(TRUE, PoolCap)
    /\ dbapi = NewDbapi
    /\ last = NoCall
    /\ IdleThreads
    /\ IdleSessions
    /\ IdleFn

ThreadStep(t, new) ==
    thr' = [thr EXCEPT ![t] = new] /\ UNCHANGED <<rsvars, last, sessvars, fnvars>>

Finish(th, e) == [th EXCEPT !.pc = "idle", !.exc = e, !.conn = 0, !.snap = <<>>]

\* connect(): `if self.pool:`
ConnTestPool(t) ==
    /\ thr[t].pc = "idle"
    /\ ThreadStep(t, [thr[t] EXCEPT !.op = "connect", !.exc = "none",
                        !.pc = IF engine.pool # <<>> THEN "pop" ELSE "cap"])
    /\ UNCHANGED <<engine, dbapi>>

\* connect(): `conn = self.pool.pop(0)`, IndexError on an empty list
ConnPop(t) ==
    /\ thr[t].pc = "pop"
    /\ IF engine.pool = <<>>
       THEN ThreadStep(t, Finish(thr[t], "IndexError")) /\ UNCHANGED engine
       ELSE /\ ThreadStep(t, [thr[t] EXCEPT !.pc = "append", !.conn = Head(engine.pool)])
            /\ engine' = [engine EXCEPT !.pool = Tail(@)]
    /\ UNCHANGED dbapi

\* connect(): `elif not self.max_pool_conns or len(self.active_conns) < ...`
ConnTestCap(t) ==
    /\ thr[t].pc = "cap"
    /\ IF engine.max_pool_conns = 0 \/ Len(engine.active_conns) < engine.max_pool_conns
       THEN ThreadStep(t, [thr[t] EXCEPT !.pc = "new"])
       ELSE ThreadStep(t, Finish(thr[t], "EngineError"))
    /\ UNCHANGED <<engine, dbapi>>

\* connect(): `conn = self._connect()`
ConnNew(t) ==
    /\ thr[t].pc = "new"
    /\ dbapi.created < MaxConns
    /\ dbapi' = [dbapi EXCEPT !.created = @ + 1]
    /\ ThreadStep(t, [thr[t] EXCEPT !.pc = "append", !.conn = dbapi.created + 1])
    /\ UNCHANGED engine

\* connect(): `self.active_conns.append(conn); return conn`
ConnAppend(t) ==
    /\ thr[t].pc = "append"
    /\ engine' = [engine EXCEPT !.active_conns = Append(@, thr[t].conn)]
    /\ ThreadStep(t, [Finish(thr[t], "none") EXCEPT !.held = @ \cup {thr[t].conn}])
    /\ UNCHANGED dbapi

\* disconnect(conn) of a connection the thread holds: `conn in self.active_conns`
DiscTest(t) ==
    /\ thr[t].pc = "idle"
    /\ \E c \in thr[t].held :
          IF c \in SeqSet(engine.active_conns)
          THEN ThreadStep(t, [thr[t] EXCEPT !.op = "disconnect", !.exc = "none",
                                 !.pc = "remove", !.conn = c])
          ELSE ThreadStep(t, [Finish(thr[t], "EngineError") EXCEPT
                                 !.op = "disconnect", !.held = @ \ {c}])
    /\ UNCHANGED <<engine, dbapi>>

\* disconnect(): `self.active_conns.remove(conn)`, ValueError when absent
DiscRemove(t) ==
    /\ thr[t].pc = "remove"
    /\ IF thr[t].conn \in SeqSet(engine.active_conns)
       THEN /\ engine' = [engine EXCEPT !.active_conns = ListRemove(@, thr[t].conn)]
            /\ ThreadStep(t, [thr[t] EXCEPT !.pc = "checkin"])
       ELSE /\ ThreadStep(t, [Finish(thr[t], "ValueError") EXCEPT !.held = @ \ {thr[t].conn}])
            /\ UNCHANGED engine
    /\ UNCHANGED dbapi

\* disconnect(): `self.pool.append(conn)`
DiscAppend(t) ==
    /\ thr[t].pc = "checkin"
    /\ engine' = [engine EXCEPT !.pool = Append(@, thr[t].conn)]
    /\ ThreadStep(t, [Finish(thr[t], "none") EXCEPT !.held = @ \ {thr[t].conn}])
    /\ UNCHANGED dbapi

\* disconnect_all(): `self.pool + self.active_conns`
AllSnapshot(t) ==
    /\ thr[t].pc = "idle"
    /\ engine.pool \o engine.active_conns # <<>>
    /\ ThreadStep(t, [thr[t] EXCEPT !.op = "disconnect_all", !.exc = "none",
                        !.pc = "close", !.snap = engine.pool \o engine.active_conns])
    /\ UNCHANGED <<engine, dbapi>>

\* disconnect_all(): the loop closing the connections
AllClose(t) ==
    /\ thr[t].pc = "close"
    /\ dbapi' = [dbapi EXCEPT !.closed = @ \cup SeqSet(thr[t].snap)]
    /\ ThreadStep(t, [thr[t] EXCEPT !.pc = "clearpool"])
    /\ UNCHANGED engine

\* disconnect_all(): `self.pool = []`
AllClearPool(t) ==
    /\ thr[t].pc = "clearpool"
    /\ engine' = [engine EXCEPT !.pool = <<>>]
    /\ ThreadStep(t, [thr[t] EXCEPT !.pc = "clearactive"])
    /\ UNCHANGED dbapi

\* disconnect_all(): `self.active_conns = []`
AllClearActive(t) ==
    /\ thr[t].pc = "clearactive"
    /\ engine' = [engine EXCEPT !.active_conns = <<>>]
    /\ ThreadStep(t, Finish(thr[t], "none"))
    /\ UNCHANGED dbapi

NextConc ==
    \E t \in Threads :
        \/ ConnTestPool(t) \/ ConnPop(t) \/ ConnTestCap(t) \/ ConnNew(t) \/ ConnAppend(t)
        \/ DiscTest(t) \/ DiscRemove(t) \/ DiscAppend(t)
        \/ AllSnapshot(t) \/ AllClose(t) \/ AllClearPool(t) \/ AllClearActive(t)

SpecConc == InitConc /\ [][NextConc]_vars

\* C4: under any interleaving of connect(), disconnect() and disconnect_all()
\* from several threads no connection is leased to two threads at once, no
\* connect() fails for a reason other than capacity (EngineError), and the
\* number of active connections never exceeds max_pool_conns.
C4_PoolAtomic ==
    /\ \A t, u \in Threads : t # u => thr[t].held \cap thr[u].held = {}
    /\ \A t \in Threads : thr[t].op = "connect" => thr[t].exc \in {"none", "EngineError"}
    /\ Len(engine.active_conns) <= engine.max_pool_conns


(***************************************************************************)
(* Programs that use sessions and transactions.  A thread's program opens  *)
(* and leaves with-blocks, calls the transaction and the session it holds, *)
(* raises an exception in a block and catches one.  frames[t] is the       *)
(* with-blocks thread t is in; an exception propagating in t is            *)
(* pending[t], and it unwinds the blocks one by one until it is caught.    *)
(***************************************************************************)
MainThread == CHOOSE t \in Threads : \A u \in Threads : t <= u

\* a SessWorld in which every thread sees the stack of the main thread
SessWorldShared(t) ==
    [engine |-> engine, dbapi |-> dbapi, rv |-> 0, exc |-> "none", calls |-> <<>>,
     sessions |-> sessions, txs |-> txs, ctx |-> stack[MainThread], full |-> FALSE,
     made |-> FALSE, sess |-> 0, thread |-> t, callbacks |-> callbacks,
     eng |-> 1]

\* the world a call of thread t starts in: session_context.stack is the list
\* of the calling thread (threading.local)
SessWorld(t) ==
    [engine |-> engine, dbapi |-> dbapi, rv |-> 0, exc |-> "none", calls |-> <<>>,
     sessions |-> sessions, txs |-> txs, ctx |-> stack[t], full |-> FALSE,
     made |-> FALSE, sess |-> 0, thread |-> t, callbacks |-> callbacks,
     eng |-> 1]

Frame(kind, s, x, made, virtual, w0) ==
    [kind |-> kind, sess |-> s, tx |-> x, made |-> made, virtual |-> virtual,
     depth0 |-> IF made THEN 0 ELSE Len(w0.sessions[s].transactions),
     ctx0 |-> w0.ctx]

NoFrame == [kind |-> "none", sess |-> 0, tx |-> 0, made |-> FALSE, virtual |-> FALSE,
            depth0 |-> 0, ctx0 |-> <<>>]

\* what the history keeps of the session s in the world w
Snap(w, s) ==
    [conn |-> IF s = 0 THEN 0 ELSE w.sessions[s].conn,
     depth |-> IF s = 0 THEN 0 ELSE Len(w.sessions[s].transactions),
     ended |-> IF s = 0 THEN FALSE ELSE w.sessions[s].ended,
     ctx |-> w.ctx]

\* the history of the call op that took the world w0 to w
Act(op, f, w0, w, excIn, excOut) ==
    [op |-> op, kind |-> f.kind, sess |-> f.sess, made |-> f.made,
     virtual |-> f.virtual,
     excIn |-> excIn, excOut |-> excOut, calls |-> w.calls,
     tx |-> IF f.tx = 0 THEN NoTx
            ELSE IF op = "enter" THEN TxInfo(w, f.tx) ELSE TxInfo(w0, f.tx),
     pre |-> [conn |-> Snap(w0, f.sess).conn, depth |-> Snap(w0, f.sess).depth,
              ended |-> Snap(w0, f.sess).ended, ctx |-> w0.ctx, engine |-> w0.engine,
              dbapi |-> w0.dbapi,
              conns |-> [s \in SessionIds |-> w0.sessions[s].conn],
              depth0 |-> f.depth0, ctx0 |-> f.ctx0],
     post |-> Snap(w, f.sess)]

\* the objects the program or the library still refers to; the others are
\* garbage and their slots are free again
SessCall(t, w, fr, pend, a) ==
    /\ ~w.full
    /\ Len(w.ctx) <= MaxCtx
    /\ steps[t] < MaxSteps
    /\ steps' = [steps EXCEPT ![t] = @ + 1]
    /\ engine' = w.engine
    /\ dbapi' = w.dbapi
    /\ stack' = [stack EXCEPT ![t] = w.ctx]
    /\ frames' = [frames EXCEPT ![t] = fr]
    /\ pending' = [pending EXCEPT ![t] = pend]
    /\ LET refS == UNION {{frames'[u][i].sess : i \in DOMAIN frames'[u]}
                              \cup SeqSet(stack'[u]) : u \in Threads}
           ss   == [s \in SessionIds |-> IF s \in refS THEN w.sessions[s]
                                         ELSE FreeSession]
           refT == UNION {{frames'[u][i].tx : i \in DOMAIN frames'[u]} : u \in Threads}
                       \cup UNION {SeqSet(ss[s].transactions) : s \in SessionIds}
       IN  /\ sessions' = ss
           /\ txs' = [x \in TxIds |-> IF x \in refT THEN w.txs[x] ELSE FreeTx]
           \* blinker drops the receivers of a sender that is garbage
           /\ callbacks' = [k \in CallbackIds |->
                               IF w.callbacks[k].sender \in refS \cup {0} THEN w.callbacks[k]
                               ELSE [w.callbacks[k] EXCEPT !.connected = FALSE,
                                                           !.sender = -1]]
    /\ act' = a
    /\ UNCHANGED <<rsvars, last, thr, fnvars>>

\* the block opened (or not, if the enter raised)
Opened(t, f, w) ==
    SessCall(t, w, IF w.exc = "none" THEN Append(frames[t], f) ELSE frames[t], w.exc,
             Act("enter", f, SessWorld(t), w, "none", w.exc))

CanOpen(t) == pending[t] = "none" /\ Len(frames[t]) < MaxDepth

KnownSessions(t) == {frames[t][i].sess : i \in DOMAIN frames[t]}

KnownTxs(t) == {frames[t][i].tx : i \in DOMAIN frames[t]} \ {0}

\* with sess as tx:
EnterSession(t) ==
    /\ CanOpen(t)
    /\ \E s \in KnownSessions(t) :
          \E w \in {SessionEnter(SessWorld(t), s, FALSE)} :
             Opened(t, Frame("sess", s, IF w.exc = "none" THEN w.rv ELSE 0,
                             FALSE, FALSE, SessWorld(t)), w)

\* with engine as tx:
EnterEngine(t) ==
    /\ CanOpen(t)
    /\ \E w \in {EngineEnter(SessWorld(t))} :
          Opened(t, IF w.exc # "none" THEN [NoFrame EXCEPT !.kind = "engine"]
                    ELSE Frame("engine", w.txs[w.rv].session, w.rv, stack[t] = <<>>,
                               FALSE, SessWorld(t)), w)

\* with engine.session() as sess:
EnterEngineSession(t) ==
    /\ CanOpen(t)
    /\ \E w \in {EngineSessionEnter(SessWorld(t), FALSE)} :
          Opened(t, IF w.exc # "none" THEN [NoFrame EXCEPT !.kind = "session"]
                    ELSE Frame("session", w.rv, 0, TRUE, FALSE, SessWorld(t)), w)

\* with ensure_transaction(engine, virtual) as tx:
EnterEnsureTransaction(t) ==
    /\ CanOpen(t)
    /\ \E withEngine \in BOOLEAN, virtual \in BOOLEAN :
          \E w \in {EnsureTransactionEnter(SessWorld(t), withEngine, virtual, TRUE)} :
             Opened(t, IF w.exc # "none"
                       THEN [NoFrame EXCEPT !.kind = "ensure", !.virtual = virtual,
                                            !.made = withEngine, !.ctx0 = stack[t]]
                       ELSE Frame("ensure", w.sess, w.rv, w.made, virtual, SessWorld(t)),
                    w)

\* what leaving the block f does, with the exception excIn propagating or none
LeaveFrame(w0, f, excIn, ok) ==
    CASE f.kind = "sess" -> SessionExit(w0, f.sess, excIn, ok)
      [] f.kind = "engine" -> EngineExit(w0, excIn, ok)
      [] f.kind = "session" -> EngineSessionExit(w0, f.sess, ok)
      [] OTHER -> EnsureTransactionExit(w0, f.sess, f.made, f.virtual, excIn, ok)

\* the innermost block is left, with the exception excIn propagating or none
ExitFrame(t, excIn) ==
    /\ frames[t] # <<>>
    /\ \E ok \in BOOLEAN :
          \E w \in {LeaveFrame(SessWorld(t), Top(frames[t]), excIn, ok)} :
             \E excOut \in {IF w.exc # "none" THEN w.exc ELSE excIn} :
                SessCall(t, w, Front(frames[t]), excOut,
                         Act("exit", Top(frames[t]), SessWorld(t), w, excIn, excOut))

\* the end of the innermost block is reached
Exit(t) == pending[t] = "none" /\ ExitFrame(t, "none")

\* the propagating exception leaves the innermost block
Unwind(t) == pending[t] # "none" /\ ExitFrame(t, pending[t])

\* the code of a block raises
RaiseInBlock(t) ==
    /\ pending[t] = "none"
    /\ frames[t] # <<>>
    /\ SessCall(t, SessWorld(t), frames[t], "BlockError", [NoAct EXCEPT !.op = "raise"])

\* try: ... except Exception: pass
Catch(t) ==
    /\ pending[t] # "none"
    /\ SessCall(t, SessWorld(t), frames[t], "none", [NoAct EXCEPT !.op = "catch"])

\* a call on the transaction x of one of the blocks the thread is in
TxCall(t, op, x, w) ==
    SessCall(t, w, frames[t], w.exc,
             Act(op, [NoFrame EXCEPT !.sess = txs[x].session, !.tx = x],
                 SessWorld(t), w, "none", w.exc))

\* tx.commit()
Commit(t) ==
    /\ pending[t] = "none"
    /\ \E x \in KnownTxs(t), ok \in BOOLEAN :
          \E w \in {TxCommit(SessWorld(t), x, ok)} : TxCall(t, "tx.commit", x, w)

\* tx.rollback()
Rollback(t) ==
    /\ pending[t] = "none"
    /\ \E x \in KnownTxs(t), ok \in BOOLEAN :
          \E w \in {TxRollback(SessWorld(t), x, ok)} : TxCall(t, "tx.rollback", x, w)

\* tx.execute(stmt)
Execute(t) ==
    /\ pending[t] = "none"
    /\ \E x \in KnownTxs(t), runs \in BOOLEAN :
          \E w \in {TxExecute(SessWorld(t), x, runs)} : TxCall(t, "tx.execute", x, w)

\* a call on the session s of one of the blocks the thread is in
SessionCall(t, op, s, w) ==
    SessCall(t, w, frames[t], w.exc,
             Act(op, [NoFrame EXCEPT !.sess = s], SessWorld(t), w, "none", w.exc))

\* sess.connect()
SessConnect(t) ==
    /\ pending[t] = "none"
    /\ \E s \in KnownSessions(t) :
          \E w \in {SessionConnect(SessWorld(t), s)} : SessionCall(t, "connect", s, w)

\* sess.commit()
SessCommit(t) ==
    /\ pending[t] = "none"
    /\ \E s \in KnownSessions(t), ok \in BOOLEAN :
          \E w \in {SessionCommit(SessWorld(t), s, ok, "session", NoTx)} :
             SessionCall(t, "commit", s, w)

\* sess.rollback()
SessRollback(t) ==
    /\ pending[t] = "none"
    /\ \E s \in KnownSessions(t), ok \in BOOLEAN :
          \E w \in {SessionRollback(SessWorld(t), s, ok, "session", NoTx)} :
             SessionCall(t, "rollback", s, w)

\* sess.close()
SessClose(t) ==
    /\ pending[t] = "none"
    /\ \E s \in KnownSessions(t), ok \in BOOLEAN :
          \E w \in {SessionClose(SessWorld(t), s, ok)} : SessionCall(t, "close", s, w)

Init ==
    /\ IdleRS
    /\ IdleThreads
    /\ IdleSessions
    /\ IdleFn
    /\ engine \in {NewEngine(p, PoolCap) : p \in BOOLEAN}
    /\ dbapi = NewDbapi
    /\ last = NoCall

Next ==
    \/ EnterSession(MainThread)
    \/ EnterEngine(MainThread)
    \/ EnterEngineSession(MainThread)
    \/ EnterEnsureTransaction(MainThread)
    \/ Exit(MainThread)
    \/ Unwind(MainThread)
    \/ RaiseInBlock(MainThread)
    \/ Catch(MainThread)
    \/ Commit(MainThread)
    \/ Rollback(MainThread)
    \/ Execute(MainThread)
    \/ SessConnect(MainThread)
    \/ SessCommit(MainThread)
    \/ SessRollback(MainThread)
    \/ SessClose(MainThread)

Spec == Init /\ [][Next]_vars


(***************************************************************************)
(* Programs that use two Engine objects: a session of the other engine may *)
(* be the thread's current session when a block of the engine is entered.  *)
(***************************************************************************)
\* with other.session() as sess:
EnterOtherSession(t) ==
    /\ CanOpen(t)
    /\ \E w \in {EngineSessionEnter([SessWorld(t) EXCEPT !.eng = 2], FALSE)} :
          Opened(t, IF w.exc # "none" THEN [NoFrame EXCEPT !.kind = "session"]
                    ELSE Frame("session", w.rv, 0, TRUE, FALSE, SessWorld(t)), w)

NextEngines ==
    \/ EnterOtherSession(MainThread)
    \/ EnterSession(MainThread)
    \/ EnterEngine(MainThread)
    \/ EnterEngineSession(MainThread)
    \/ EnterEnsureTransaction(MainThread)
    \/ Exit(MainThread)
    \/ Unwind(MainThread)
    \/ RaiseInBlock(MainThread)
    \/ Catch(MainThread)
    \/ Commit(MainThread)
    \/ Rollback(MainThread)
    \/ Execute(MainThread)
    \/ SessConnect(MainThread)
    \/ SessCommit(MainThread)
    \/ SessRollback(MainThread)
    \/ SessClose(MainThread)

SpecEngines == Init /\ [][NextEngines]_vars


(***************************************************************************)
(* helpers.py: after_commit.  The program gives functions to after_commit  *)
(* between its calls on sessions and transactions.                         *)
(***************************************************************************)
\* after_commit(func): ensure_session() without an engine yields the thread's
\* current session or raises; the two listeners are connected for it
AfterCommit(w) ==
    IF w.ctx = <<>> THEN Raise(w, "MissingSessionError")
    ELSE IF \A k \in CallbackIds : w.callbacks[k].sender # 0 THEN Full(w)
    ELSE LET k == CHOOSE i \in CallbackIds :
                     w.callbacks[i].sender = 0
                         /\ \A j \in 1..(i - 1) : w.callbacks[j].sender # 0
         IN  [w EXCEPT !.callbacks[k] = [FreeCallback EXCEPT !.sender = Top(w.ctx),
                                                            !.connected = TRUE],
                       !.rv = k]

\* after_commit(func) in the program
Register(t) ==
    /\ pending[t] = "none"
    /\ \E w \in {AfterCommit(SessWorld(t))} :
          SessCall(t, w, frames[t], w.exc,
                   Act("after_commit", [NoFrame EXCEPT !.sess = IF stack[t] = <<>> THEN 0
                                                               ELSE Top(stack[t])],
                       SessWorld(t), w, "none", w.exc))

NextCallbacks ==
    \/ Register(MainThread)
    \/ EnterSession(MainThread)
    \/ EnterEngine(MainThread)
    \/ EnterEngineSession(MainThread)
    \/ EnterEnsureTransaction(MainThread)
    \/ Exit(MainThread)
    \/ Unwind(MainThread)
    \/ RaiseInBlock(MainThread)
    \/ Catch(MainThread)
    \/ Commit(MainThread)
    \/ Rollback(MainThread)
    \/ Execute(MainThread)
    \/ SessConnect(MainThread)
    \/ SessCommit(MainThread)
    \/ SessRollback(MainThread)
    \/ SessClose(MainThread)

SpecCallbacks == Init /\ [][NextCallbacks]_vars

(***************************************************************************)
(* Programs of several threads, each with its own sessions: the threads'   *)
(* enters, exits, commits and exceptions interleave.  A call touches the   *)
(* session_context stack of its own thread only, so a call is one step.    *)
(***************************************************************************)
\* calls the threads' programs make together
MaxThreadSteps == 3

RECURSIVE SumSteps(_)
SumSteps(T) ==
    IF T = {} THEN 0
    ELSE LET t == CHOOSE u \in T : TRUE IN steps[t] + SumSteps(T \ {t})

\* the threads' programs may make another call
MayStep == SumSteps(Threads) < MaxThreadSteps

NextThreads ==
    \/ \E t \in Threads : MayStep /\ EnterSession(t)
    \/ \E t \in Threads : MayStep /\ EnterEngine(t)
    \/ \E t \in Threads : MayStep /\ EnterEngineSession(t)
    \/ \E t \in Threads : MayStep /\ EnterEnsureTransaction(t)
    \/ \E t \in Threads : MayStep /\ Exit(t)
    \/ \E t \in Threads : MayStep /\ Unwind(t)
    \/ \E t \in Threads : MayStep /\ RaiseInBlock(t)
    \/ \E t \in Threads : MayStep /\ Catch(t)
    \/ \E t \in Threads : MayStep /\ Commit(t)

SpecThreads == Init /\ [][NextThreads]_vars

(***************************************************************************)
(* engine.py: the before-execute receivers of Transaction.cursor and       *)
(* Transaction.executemany.  A receiver returns None, False, a tuple       *)
(* (stmt, params) or another object (a cursor); the transaction is open    *)
(* and the driver's execute returns.                                       *)
(***************************************************************************)
\* receivers connected to before-execute
MaxHooks == 2

HookRvs == {"None", "False", "Tuple1", "Tuple2", "Cursor"}

IsTuple(rv) == rv \in {"Tuple1", "Tuple2"}

\* bool(rv) of a receiver's return value
HookTruthy(rv) == rv \in {"Tuple1", "Tuple2", "Cursor"}

\* _signal_rv
RECURSIVE SignalRvFrom(_, _)
SignalRvFrom(rvs, final_rv) ==
    IF rvs = <<>> THEN final_rv
    ELSE IF Head(rvs) = "False" THEN "False"
    ELSE SignalRvFrom(Tail(rvs), IF HookTruthy(Head(rvs)) THEN Head(rvs) ELSE final_rv)

signal_rv(rvs) == SignalRvFrom(rvs, "None")

\* Transaction.cursor(stmt, params): the driver method called, the statement
\* it was called with and what the method returned
TransactionCursor(rvs) ==
    LET rv == signal_rv(rvs)
    IN  IF IsTuple(rv) THEN [done |-> TRUE, driver |-> "execute", stmt |-> rv, rv |-> "cur"]
        ELSE IF HookTruthy(rv) THEN [done |-> TRUE, driver |-> "none", stmt |-> "none", rv |-> rv]
        ELSE [done |-> TRUE, driver |-> "execute", stmt |-> "Original", rv |-> "cur"]

\* Transaction.executemany(stmt, seq_of_parameters)
TransactionExecutemany(rvs) ==
    LET rv == signal_rv(rvs)
    IN  IF IsTuple(rv) THEN [done |-> TRUE, driver |-> "executemany", stmt |-> rv, rv |-> "None"]
        ELSE IF rv = "False" THEN [done |-> TRUE, driver |-> "none", stmt |-> "none", rv |-> "None"]
        ELSE [done |-> TRUE, driver |-> "executemany", stmt |-> "Original", rv |-> "None"]

InitHooks ==
    /\ IdleRS
    /\ IdlePool
    /\ IdleThreads
    /\ IdleSessions
    /\ fn_arg \in {[many |-> many, rvs |-> rvs] :
                      many \in BOOLEAN, rvs \in SeqsUpTo(HookRvs, MaxHooks)}
    /\ fn_res = Pending

\* tx.cursor(stmt) / tx.execute(stmt) / tx.fetch(stmt)
RunCursor ==
    /\ ~fn_res.done
    /\ ~fn_arg.many
    /\ fn_res' = TransactionCursor(fn_arg.rvs)
    /\ UNCHANGED <<rsvars, poolvars, last, thr, sessvars, fn_arg>>

\* tx.executemany(stmt, seq_of_parameters)
RunExecutemany ==
    /\ ~fn_res.done
    /\ fn_arg.many
    /\ fn_res' = TransactionExecutemany(fn_arg.rvs)
    /\ UNCHANGED <<rsvars, poolvars, last, thr, sessvars, fn_arg>>

NextHooks == RunCursor \/ RunExecutemany

SpecHooks == InitHooks /\ [][NextHooks]_vars

(***************************************************************************)
(* sql.py: format_param, ParameterCollector                                *)
(*                                                                         *)
(* A parameter name is a base word followed by the numbers appended to it: *)
(* "a_1_2" is Name("a", <<1, 2>>), so that f"{name}_{i}" is Suffixed and a  *)
(* caller's "a_1" is the same string as the one add() derives from "a".    *)
(***************************************************************************)
MaxAdds == 3

ParamStyles == {"qmark", "numeric", "format", "named", "pyformat"}

Name(base, sfx) == [base |-> base, sfx |-> sfx]

\* name is None (or the empty string): `not name`
NoName == Name("", <<>>)

\* f"{name}_{i}"
Suffixed(name, i) == [name EXCEPT !.sfx = Append(@, i)]

\* str(n) of a position
IntName(n) == Name("#", <<n>>)

\* format_param: the placeholder, by its form and the name inside it
format_param(name, paramstyle) ==
    IF paramstyle = "qmark" THEN [fmt |-> "?", name |-> NoName]
    ELSE IF paramstyle = "format" THEN [fmt |-> "%s", name |-> NoName]
    ELSE IF paramstyle = "numeric"
    THEN [fmt |-> ":", name |-> IF name = NoName THEN IntName(0) ELSE name]
    ELSE LET n == IF name = NoName THEN Name("param", <<>>) ELSE name
         IN  IF paramstyle = "named" THEN [fmt |-> ":", name |-> n]
             ELSE [fmt |-> "%()s", name |-> n]

\* the caller's params: None, a dict (its items in order) or a list
NoParams == [kind |-> "none", items |-> <<>>]
DictParams(items) == [kind |-> "dict", items |-> items]
ListParams(values) ==
    [kind |-> "list", items |-> [i \in DOMAIN values |-> [name |-> NoName, value |-> values[i]]]]

\* ParameterCollector.__init__: values is a list (positional styles) or a
\* dict, here the function from its keys to their values
NewParameterCollector(params, paramstyle) ==
    LET keys == [i \in DOMAIN params.items |-> params.items[i].name]
        vals == [i \in DOMAIN params.items |-> params.items[i].value]
        dict == [n \in SeqSet(keys) |->
                    (CHOOSE i \in DOMAIN keys : keys[i] = n /\ \A j \in DOMAIN keys :
                                                   keys[j] = n => j <= i)]
        numbered == [i \in DOMAIN vals |-> Suffixed(Name("param", <<>>), i)]
    IN  IF paramstyle \in {"qmark", "numeric", "format"}
        THEN [paramstyle |-> paramstyle, isdict |-> FALSE, exc |-> "none",
              names  |-> IF params.kind = "dict" THEN keys
                         ELSE IF params.kind = "list" THEN numbered ELSE <<>>,
              values |-> vals,
              dict   |-> <<>>]
        ELSE IF params.kind = "list" /\ params.items # <<>>
        THEN [paramstyle |-> paramstyle, isdict |-> TRUE, exc |-> "ParameterCollectorError",
              names |-> <<>>, values |-> <<>>, dict |-> <<>>]
        ELSE [paramstyle |-> paramstyle, isdict |-> TRUE, exc |-> "none",
              names  |-> keys,
              values |-> <<>>,
              dict   |-> [n \in DOMAIN dict |-> vals[dict[n]]]]

\* while f"{name}_{i}" in self.names: i += 1
RECURSIVE FirstFree(_, _, _)
FirstFree(name, i, names) ==
    IF Suffixed(name, i) \in SeqSet(names) THEN FirstFree(name, i + 1, names) ELSE i

\* self.values[name] = value
DictSet(d, k, v) == [n \in (DOMAIN d) \cup {k} |-> IF n = k THEN v ELSE d[n]]

\* an add that records the name it is given, taken or not
ParameterCollectorAddAsGiven(c, value, name) ==
    LET n == IF name = NoName THEN Suffixed(Name("param", <<>>), 1) ELSE name
    IN  IF c.isdict
        THEN [c  |-> [c EXCEPT !.names = Append(@, n), !.dict = DictSet(@, n, value)],
              rv |-> format_param(n, c.paramstyle)]
        ELSE [c  |-> [c EXCEPT !.names = Append(@, n), !.values = Append(@, value)],
              rv |-> format_param(IntName(Len(c.values) + 1), c.paramstyle)]

\* ParameterCollector.add: the result is [c, rv], the collector after the
\* call and the placeholder it returns
ParameterCollectorAdd(c, value, name) ==
    LET base == IF name = NoName THEN Name("param", <<>>) ELSE name
        n == IF name = NoName \/ name \in SeqSet(c.names)
             THEN Suffixed(base, FirstFree(base, 1, c.names))
             ELSE name
    IN  IF c.isdict
        THEN [c  |-> [c EXCEPT !.names = Append(@, n), !.dict = DictSet(@, n, value)],
              rv |-> format_param(n, c.paramstyle)]
        ELSE [c  |-> [c EXCEPT !.names = Append(@, n), !.values = Append(@, value)],
              rv |-> format_param(IntName(Len(c.values) + 1), c.paramstyle)]

(***************************************************************************)
(* A program that fills one collector                                      *)
(***************************************************************************)
ParamValues == {"v", "w"}

\* the names a caller gives its parameters
CallerNames == {NoName, Name("a", <<>>), Name("a", <<1>>), Name("param", <<1>>)}

\* the params a collector is created from
CallerParams ==
    {NoParams, ListParams(<<"v">>),
     DictParams(<<[name |-> Name("a", <<>>), value |-> "v"]>>),
     DictParams(<<[name |-> Name("param", <<1>>), value |-> "v"],
                  [name |-> Name("a", <<1>>), value |-> "w"]>>)}

\* fn_res is the collector, with the calls made on it and what they returned
InitCollector ==
    /\ IdleRS
    /\ IdlePool
    /\ IdleThreads
    /\ IdleSessions
    /\ fn_arg \in [params : CallerParams, paramstyle : ParamStyles]
    /\ fn_res = [done |-> FALSE, c |-> NewParameterCollector(fn_arg.params, fn_arg.paramstyle),
                 adds |-> <<>>]

\* collector.add(value, name)
Add ==
    /\ fn_res.c.exc = "none"
    /\ Len(fn_res.adds) < MaxAdds
    /\ \E value \in ParamValues, name \in CallerNames :
           \E r \in {ParameterCollectorAdd(fn_res.c, value, name)} :
               fn_res' = [fn_res EXCEPT !.c = r.c,
                                        !.adds = Append(@, [value |-> value, name |-> name,
                                                            recorded |-> r.c.names[Len(r.c.names)],
                                                            rv |-> r.rv])]
    /\ UNCHANGED <<rsvars, poolvars, last, thr, sessvars, fn_arg>>

NextCollector == Add

SpecCollector == InitCollector /\ [][NextCollector]_vars

(***************************************************************************)
(* sql.py: the SQL pieces and their rendering                              *)
(*                                                                         *)
(* A statement text is the sequence of its words: " ".join of the strings  *)
(* that are not empty is the concatenation of their words. A word is a     *)
(* literal string or a placeholder.                                        *)
(***************************************************************************)
MaxItems == 2

\* a part that is not an SQLStr: a Python string, or None
PyStr(s) == [k |-> "str", s |-> s]
PyNone == [k |-> "None"]

\* SQL.__init__
SQL(parts) == [k |-> "SQL", parts |-> parts]

\* Parameter.__init__
Parameter(value, name) == [k |-> "Parameter", value |-> value, name |-> name]

\* ParameterPlaceholder.__init__
ParameterPlaceholder(name) == [k |-> "ParameterPlaceholder", name |-> name]

\* List.__init__
List(items, joinstr, startstr, endstr) ==
    [k |-> "List", items |-> items, joinstr |-> joinstr, startstr |-> startstr,
     endstr |-> endstr]

\* And.__init__, Or.__init__, Tuple.__init__
And(items) == List(items, "AND", "(", ")")
Or(items) == List(items, "OR", "(", ")")
Tuple(items) == List(items, ",", "(", ")")

\* isinstance(x, SQLStr)
IsSQLStr(x) == x.k \in {"SQL", "Parameter", "ParameterPlaceholder", "List"}

\* bool(x): a list by its length, a string by its length, None is false, an
\* object without __bool__ and __len__ is true
Bool(x) ==
    IF x.k = "List" THEN x.items # <<>>
    ELSE IF x.k = "str" THEN x.s # ""
    ELSE x.k # "None"

\* the words of a text
Word(s) == [s |-> s, fmt |-> "", name |-> NoName]
Placeholder(ph) == [s |-> "", fmt |-> ph.fmt, name |-> ph.name]

\* List._render: the parts of the SQL() it renders
ListParts(l) ==
    LET n == Len(l.items)
        between == [i \in 1..(IF n = 0 THEN 0 ELSE 2 * n - 1) |->
                       IF i % 2 = 1 THEN l.items[(i + 1) \div 2] ELSE PyStr(l.joinstr)]
    IN  (IF l.startstr # "" THEN <<PyStr(l.startstr)>> ELSE <<>>)
            \o between
            \o (IF l.endstr # "" THEN <<PyStr(l.endstr)>> ELSE <<>>)

\* x._render(params): the result is [text, c], the text and the collector
\* after the call
RECURSIVE Render(_, _)
\* SQL._render: the loop over self.parts, then the join
RECURSIVE RenderParts(_, _, _)
Render(x, c) ==
    IF x.k = "Parameter"
    THEN LET r == ParameterCollectorAdd(c, x.value, x.name)
         IN  [text |-> <<Placeholder(r.rv)>>, c |-> r.c]
    ELSE IF x.k = "ParameterPlaceholder"
    THEN [text |-> <<Placeholder(format_param(x.name, c.paramstyle))>>, c |-> c]
    ELSE IF x.k = "List" THEN RenderParts(ListParts(x), c, <<>>)
    ELSE RenderParts(x.parts, c, <<>>)

RenderParts(parts, c, stmt) ==
    IF parts = <<>> THEN [text |-> stmt, c |-> c]
    ELSE LET part == Head(parts)
             r == Render(part, c)
         IN  IF IsSQLStr(part) THEN RenderParts(Tail(parts), r.c, stmt \o r.text)
             ELSE IF Bool(part) THEN RenderParts(Tail(parts), c, Append(stmt, Word(part.s)))
             ELSE RenderParts(Tail(parts), c, stmt)

\* render(stmt, paramstyle=...): [text, params]
RenderStmt(stmt, paramstyle) ==
    LET r == Render(stmt, NewParameterCollector(NoParams, paramstyle))
    IN  [text |-> r.text, params |-> IF r.c.isdict THEN r.c.dict ELSE r.c.values,
         names |-> r.c.names]

\* an op that passes its right operand on as it is
opUnwrapped(self, operator, other) ==
    SQL(<<self, PyStr(operator), other>>)

\* SQLStr.op
op(self, operator, other) ==
    IF ~IsSQLStr(other) THEN SQL(<<self, PyStr(operator), Parameter(other.s, NoName)>>)
    ELSE SQL(<<self, PyStr(operator), other>>)

\* the operators of __lt__ ... ilike
Operators == {"<", "<=", "=", "!=", ">", ">=", "IN", "NOT IN", "LIKE", "ILIKE"}

\* SQL.__getattr__: stmt.where(cond), stmt.from_(table)
GetAttr(self, word, p) == SQL(self.parts \o <<PyStr(word)>> \o p)

\* SQL.select
SQLSelect(args) == SQL(<<PyStr("SELECT")>> \o args)

\* a dict of column values, as its items in order
Keys(values) == [i \in DOMAIN values |-> PyStr(values[i].name)]

\* SQL.insert
SQLInsert(table, values) ==
    IF values = <<>>
    THEN SQL(<<PyStr("INSERT INTO"), PyStr(table), PyStr("DEFAULT VALUES")>>)
    ELSE SQL(<<PyStr("INSERT INTO"), PyStr(table), Tuple(Keys(values)), PyStr("VALUES"),
               Tuple([i \in DOMAIN values |->
                         Parameter(values[i].value, Name(values[i].name, <<>>))])>>)

\* SQL.update, values given
SQLUpdate(table, values) ==
    SQL(<<PyStr("UPDATE"), PyStr(table), PyStr("SET"),
          List([i \in DOMAIN values |->
                   SQL(<<PyStr(values[i].name), PyStr("="),
                         Parameter(values[i].value, Name(values[i].name, <<>>))>>)],
               ",", "", "")>>)

\* SQL.delete_from
SQLDeleteFrom(table) == SQL(<<PyStr("DELETE FROM"), PyStr(table)>>)

\* Mapper.primary_key_condition, one primary key column
PrimaryKeyCondition(pk) == op(SQL(<<PyStr("id")>>), "=", Parameter(pk, NoName))

\* Mapper.insert, Mapper.update and Mapper.delete of an object whose
\* dehydrated values are `values` and whose primary key is pk ("" for None)
MapperInsert(table, values) == SQLInsert(table, values)

MapperUpdate(table, values, pk) ==
    IF values = <<>> THEN PyNone
    ELSE GetAttr(SQLUpdate(table, values), "WHERE", <<PrimaryKeyCondition(pk)>>)

MapperDelete(table, pk) ==
    IF pk = "" THEN PyNone
    ELSE GetAttr(SQLDeleteFrom(table), "WHERE", <<PrimaryKeyCondition(pk)>>)

(***************************************************************************)
(* Programs that build one statement and render it                         *)
(***************************************************************************)
\* the conditions a program combines
Conditions == {SQL(<<PyStr("a")>>), op(SQL(<<PyStr("col")>>), "=", PyStr("v"))}

\* SELECT * FROM t
BaseStmt == GetAttr(SQLSelect(<<PyStr("*")>>), "FROM", <<PyStr("t")>>)

\* cond = And(items) or Or(items), then one of
\*   alone:    cond rendered by itself
\*   part:     SQL("SELECT", "*", "FROM", "t", cond)
\*   guarded:  stmt = SQL.select("*").from_("t"); if cond: stmt = stmt.where(cond)
WhereInputs ==
    [fn : {"where"}, comb : {"And", "Or"}, items : SeqsUpTo(Conditions, MaxItems),
     embed : {"alone", "part", "guarded"}, paramstyle : ParamStyles]

Combined(comb, items) == IF comb = "And" THEN And(items) ELSE Or(items)

WhereStmt(in) ==
    LET cond == Combined(in.comb, in.items)
    IN  IF in.embed = "alone" THEN cond
        ELSE IF in.embed = "part" THEN SQL(BaseStmt.parts \o <<cond>>)
        ELSE IF Bool(cond) THEN GetAttr(BaseStmt, "WHERE", <<cond>>)
        ELSE BaseStmt

\* SQL("col") <operator> rhs, rhs being the program's variable x or y or the
\* node SQL("other"); two of them joined by & or |
Comparisons == [operator : Operators, rhs : {"x", "y", "node"}]

CompareInputs ==
    {[fn |-> "compare", comb |-> "none", l |-> l,
      r |-> [operator |-> "=", rhs |-> "node"], env |-> env, paramstyle |-> st] :
        l \in Comparisons, env \in [{"x", "y"} -> ParamValues], st \in ParamStyles}
    \cup
    {[fn |-> "compare", comb |-> comb, l |-> l, r |-> r, env |-> env, paramstyle |-> st] :
        comb \in {"And", "Or"}, l \in Comparisons,
        r \in [operator : {"=", "IN"}, rhs : {"x", "y", "node"}],
        env \in [{"x", "y"} -> ParamValues], st \in ParamStyles}

Operand(rhs, env) == IF rhs = "node" THEN SQL(<<PyStr("other")>>) ELSE PyStr(env[rhs])

Comparison(cmp, env) == op(SQL(<<PyStr("col")>>), cmp.operator, Operand(cmp.rhs, env))

\* SQLStr.__and__, SQLStr.__or__ for the joined ones
CompareStmt(in, env) ==
    IF in.comb = "none" THEN Comparison(in.l, env)
    ELSE Combined(in.comb, <<Comparison(in.l, env), Comparison(in.r, env)>>)

\* the column values of a builder call: a dict of up to MaxItems columns
Mappings ==
    {q \in SeqsUpTo([name : {"a", "b"}, value : ParamValues], MaxItems) :
        \A i, j \in DOMAIN q : i # j => q[i].name # q[j].name}

BuilderInputs ==
    [fn : {"SQL.insert", "SQL.update", "Mapper.insert", "Mapper.update", "Mapper.delete"},
     values : Mappings, pk : {"", "1"}, paramstyle : ParamStyles]

BuilderStmt(in) ==
    IF in.fn = "SQL.insert" THEN SQLInsert("t", in.values)
    ELSE IF in.fn = "SQL.update" THEN SQLUpdate("t", in.values)
    ELSE IF in.fn = "Mapper.insert" THEN MapperInsert("t", in.values)
    ELSE IF in.fn = "Mapper.update" THEN MapperUpdate("t", in.values, in.pk)
    ELSE MapperDelete("t", in.pk)

\* what a program leaves: the object it built and, when it is a statement,
\* its rendering
Built(stmt, paramstyle) ==
    LET r == RenderStmt(stmt, paramstyle)
    IN  IF IsSQLStr(stmt)
        THEN [done |-> TRUE, stmt |-> stmt, text |-> r.text, params |-> r.params]
        ELSE [done |-> TRUE, stmt |-> stmt, text |-> <<>>, params |-> <<>>]

InitSql ==
    /\ IdleRS
    /\ IdlePool
    /\ IdleThreads
    /\ IdleSessions
    /\ fn_arg \in WhereInputs \cup CompareInputs \cup BuilderInputs
    /\ fn_res = Pending

RunWhere ==
    /\ ~fn_res.done
    /\ fn_arg.fn = "where"
    /\ fn_res' = Built(WhereStmt(fn_arg), fn_arg.paramstyle)
    /\ UNCHANGED <<rsvars, poolvars, last, thr, sessvars, fn_arg>>

RunCompare ==
    /\ ~fn_res.done
    /\ fn_arg.fn = "compare"
    /\ fn_res' = Built(CompareStmt(fn_arg, fn_arg.env), fn_arg.paramstyle)
    /\ UNCHANGED <<rsvars, poolvars, last, thr, sessvars, fn_arg>>

RunBuilder ==
    /\ ~fn_res.done
    /\ fn_arg.fn \notin {"where", "compare"}
    /\ fn_res' = Built(BuilderStmt(fn_arg), fn_arg.paramstyle)
    /\ UNCHANGED <<rsvars, poolvars, last, thr, sessvars, fn_arg>>

NextSql == RunWhere \/ RunCompare \/ RunBuilder

SpecSql == InitSql /\ [][NextSql]_vars

(***************************************************************************)
(* render(stmt, params, paramstyle=...): statements that refer to the      *)
(* caller's params by name                                                 *)
(***************************************************************************)
MaxParts == 3

\* ParameterCollector.get, in the positional styles
ParameterCollectorGet(c, name) ==
    c.values[CHOOSE i \in DOMAIN c.names :
                 c.names[i] = name /\ \A j \in 1..(i - 1) : c.names[j] # name]

\* render(stmt, params, paramstyle=paramstyle), stmt an SQLStr
RenderWith(stmt, params, paramstyle) ==
    LET r == Render(stmt, NewParameterCollector(params, paramstyle))
    IN  [done |-> TRUE, text |-> r.text,
         params |-> IF r.c.isdict THEN r.c.dict ELSE r.c.values]

\* the parts of the statements: a literal, parameters with a value of their
\* own, and placeholders for the caller's parameters
RenderNodes ==
    {PyStr("col"), Parameter("x", NoName), Parameter("y", Name("a", <<>>)),
     ParameterPlaceholder(Name("a", <<>>)),
     ParameterPlaceholder(Name("a", <<1>>)),
     ParameterPlaceholder(Name("param", <<1>>))}

RenderInputs ==
    [fn : {"render"}, parts : SeqsUpTo(RenderNodes, MaxParts) \ {<<>>},
     params : CallerParams \ {NoParams}, paramstyle : {"qmark", "format"}]

InitRender ==
    /\ IdleRS
    /\ IdlePool
    /\ IdleThreads
    /\ IdleSessions
    /\ fn_arg \in RenderInputs
    /\ fn_res = Pending

RunRender ==
    /\ ~fn_res.done
    /\ fn_res' = RenderWith(SQL(fn_arg.parts), fn_arg.params, fn_arg.paramstyle)
    /\ UNCHANGED <<rsvars, poolvars, last, thr, sessvars, fn_arg>>

NextRender == RunRender

SpecRender == InitRender /\ [][NextRender]_vars

(***************************************************************************)
(* Claims about the pool                                                   *)
(***************************************************************************)
PooledConnect == last.op = "connect" /\ last.flag /\ last.pre.engine.pooling

\* C3: on a pooled engine connect() returns the oldest idle connection when
\* there is one and creates none; otherwise it creates a connection if
\* max_pool_conns is 0 or the active count is below it; otherwise it raises
\* EngineError and leaves pool, active set and driver as they were. The active
\* count never exceeds a non-zero cap, and a connect() that follows the
\* disconnect(conn) of the only idle connection returns conn.
C3_PoolConnect ==
    /\ PooledConnect =>
          LET e0 == last.pre.engine
              d0 == last.pre.dbapi
          IN  IF e0.pool # <<>>
              THEN /\ last.exc = "none"
                   /\ last.rv = Head(e0.pool)
                   /\ dbapi = d0
                   /\ engine.pool = Tail(e0.pool)
                   /\ engine.active_conns = Append(e0.active_conns, last.rv)
              ELSE IF e0.max_pool_conns = 0 \/ Len(e0.active_conns) < e0.max_pool_conns
              THEN /\ last.exc = "none"
                   /\ last.rv = d0.created + 1
                   /\ dbapi.created = d0.created + 1
                   /\ engine.pool = <<>>
                   /\ engine.active_conns = Append(e0.active_conns, last.rv)
              ELSE /\ last.exc = "EngineError"
                   /\ engine = e0
                   /\ dbapi = d0
    /\ (engine.pooling /\ engine.max_pool_conns > 0)
          => Len(engine.active_conns) <= engine.max_pool_conns
    /\ (/\ PooledConnect
        /\ last.prev.op = "disconnect" /\ ~last.prev.flag /\ last.prev.exc = "none"
        /\ last.pre.engine.pool = <<last.prev.arg>>)
          => (last.exc = "none" /\ last.rv = last.prev.arg)

\* with max_pool_conns connections created, one disconnect(conn) was followed by
\* a connect() that returned conn, and the active set is at the cap again
C3_Witness ==
    /\ PooledConnect
    /\ engine.max_pool_conns = PoolCap
    /\ last.prev.op = "disconnect" /\ ~last.prev.flag /\ last.prev.exc = "none"
    /\ last.rv = last.prev.arg
    /\ last.pre.dbapi.created = PoolCap
    /\ Len(engine.active_conns) = PoolCap


\* C13: disconnect(conn) on a pooled engine, without force, moves an active
\* connection from the active list to the end of the pool and does not close
\* it; for a connection that is not active it raises EngineError and changes
\* nothing. With force, or on an engine that does not pool, it closes the
\* connection and raises nothing. An engine that does not pool has no active
\* connection, whatever was connected.
C13_Disconnect ==
    /\ last.op = "disconnect" =>
          LET e0 == last.pre.engine
              d0 == last.pre.dbapi
          IN  IF last.flag \/ ~e0.pooling
              THEN /\ last.exc = "none"
                   /\ dbapi.closed = d0.closed \cup {last.arg}
              ELSE IF last.arg \in SeqSet(e0.active_conns)
              THEN /\ last.exc = "none"
                   /\ dbapi = d0
                   /\ engine.active_conns = ListRemove(e0.active_conns, last.arg)
                   /\ last.arg \notin SeqSet(engine.active_conns)
                   /\ engine.pool = Append(e0.pool, last.arg)
              ELSE /\ last.exc = "EngineError"
                   /\ engine = e0
                   /\ dbapi = d0
    /\ ~engine.pooling => engine.active_conns = <<>>

\* disconnect(conn) has raised EngineError for a connection that is idle in
\* the pool, while another connection is active
C13_Witness ==
    /\ last.op = "disconnect"
    /\ last.exc = "EngineError"
    /\ last.arg \in SeqSet(engine.pool)
    /\ engine.active_conns # <<>>


\* C24: on a pooled engine, after any sequence of connect, disconnect,
\* disconnect with force and disconnect_all, no closed connection is in the
\* idle pool or in the active list, so connect() returns no closed
\* connection and a connection closed with force does not count toward
\* max_pool_conns.
C24_NoClosedConnectionKept ==
    engine.pooling =>
        /\ SeqSet(engine.pool) \cap dbapi.closed = {}
        /\ SeqSet(engine.active_conns) \cap dbapi.closed = {}
        /\ (last.op = "connect" /\ last.exc = "none") => last.rv \notin dbapi.closed

(***************************************************************************)
(* Claims about sessions and transactions                                  *)
(***************************************************************************)
\* the calls of the last operation that reached the driver's conn.commit() or
\* conn.rollback()
Physical == {i \in DOMAIN act.calls : act.calls[i].call \in {"commit", "rollback"}}

\* every transaction entered on a non-empty stack is virtual, every
\* conn.commit() and conn.rollback() that a Transaction method makes is made by
\* a transaction that is not virtual and was entered on an empty stack, and
\* commit() or rollback() of a nested transaction reaches the driver not at all
NestedAreVirtual ==
    /\ \A x \in TxIds : (txs[x].live /\ txs[x].nested) => txs[x].virtual
    /\ (act.op = "enter" /\ act.excOut = "none" /\ act.pre.depth > 0) => act.tx.virtual
    /\ \A i \in Physical :
          act.calls[i].via = "tx"
              => ~act.calls[i].tx.virtual /\ ~act.calls[i].tx.nested
    /\ (act.op \in {"tx.commit", "tx.rollback"} /\ act.tx.nested) => act.calls = <<>>

\* C2: a transaction entered on a session whose transaction stack is not empty
\* is virtual, whatever the caller asked for, and conn.commit() and
\* conn.rollback() are called only for the outermost, non-virtual transaction:
\* leaving the scope of a nested transaction, and commit() or rollback() of a
\* nested transaction, call neither.
C2_NestedVirtual ==
    /\ NestedAreVirtual
    /\ (act.op = "exit" /\ act.tx.is /\ act.tx.nested) => Physical = {}

\* C5: the exit of a transaction scope pops the transaction from the session's
\* stack and, when it was the outermost one, the session from the thread's
\* session_context stack, on every exit path.
C5_ExitCleansUp ==
    (act.op = "exit" /\ act.kind \in {"sess", "engine"})
        => /\ act.post.depth = act.pre.depth - 1
           /\ act.pre.depth = 1 => act.post.ctx = Front(act.pre.ctx)

\* C6: ensure_transaction(engine) on a thread with a current session enters a
\* virtual transaction on that session and its exit leaves the session open, at
\* the stack depth and with the session_context it had; with no current
\* session and an engine it opens a session and its exit closes it; with
\* neither it raises MissingSessionError and creates nothing.
C6_EnsureTransaction ==
    /\ (act.op = "enter" /\ act.kind = "ensure" /\ act.virtual /\ act.excOut = "none")
          => /\ act.tx.virtual
             /\ act.pre.ctx # <<>> => /\ act.sess = Top(act.pre.ctx)
                                      /\ act.post.depth = act.pre.depth + 1
             /\ act.pre.ctx = <<>> => act.made
    /\ (act.op = "enter" /\ act.kind = "ensure" /\ act.pre.ctx = <<>> /\ ~act.made)
          => /\ act.excOut = "MissingSessionError"
             /\ engine = act.pre.engine
             /\ dbapi = act.pre.dbapi
             /\ \A s \in SessionIds : ~sessions[s].live
    /\ (act.op = "exit" /\ act.kind = "ensure" /\ act.virtual /\ ~act.made)
          => /\ act.post.depth = act.pre.depth0
             /\ act.post.ctx = act.pre.ctx0
             /\ act.post.ended = act.pre.ended
    /\ (act.op = "exit" /\ act.kind = "ensure" /\ act.virtual /\ act.made)
          => /\ act.post.ended
             /\ act.post.conn = 0
             /\ act.post.ctx = act.pre.ctx0

\* C7: when an exception leaves the scope of a transaction that is neither
\* virtual nor ended, on a session that holds a connection, conn.rollback() is
\* called, conn.commit() is not, and the exception that leaves the scope is the
\* one that entered it, also when conn.rollback() raises.
C7_RollbackKeepsException ==
    (/\ act.op = "exit"
     /\ act.kind \in {"sess", "engine"}
     /\ act.excIn # "none"
     /\ act.tx.is /\ ~act.tx.virtual /\ ~act.tx.ended
     /\ act.pre.conn # 0 /\ ~act.pre.ended /\ act.pre.depth = 1)
        => /\ \E i \in Physical : act.calls[i].call = "rollback"
           /\ \A i \in Physical : act.calls[i].call # "commit"
           /\ act.excOut = act.excIn

\* C8: a transaction in which a statement failed never has conn.commit()
\* called for it.
C8_FailedNeverCommitted ==
    \A i \in Physical :
        (act.calls[i].call = "commit" /\ act.calls[i].via = "tx")
            => ~act.calls[i].tx.failed

LazyOps == {"enter", "exit", "tx.commit", "tx.rollback", "commit", "rollback", "close"}

\* C9: only tx.execute() and sess.connect() check a connection out: every
\* other call creates no connection, adds none to the engine's active list and
\* gives none to a session; while no session holds a connection it calls
\* neither conn.commit() nor conn.rollback() and leaves the engine as it was.
C9_LazyConnect ==
    act.op \in LazyOps
        => /\ dbapi.created = act.pre.dbapi.created
           /\ SeqSet(engine.active_conns) \subseteq SeqSet(act.pre.engine.active_conns)
           /\ \A s \in SessionIds : sessions[s].conn \in {0, act.pre.conns[s]}
           /\ (\A s \in SessionIds : act.pre.conns[s] = 0)
                 => /\ act.calls = <<>>
                    /\ engine = act.pre.engine
                    /\ dbapi = act.pre.dbapi
           /\ (act.op \in {"tx.commit", "tx.rollback", "commit", "rollback"}
                 /\ act.pre.conn = 0)
                 => /\ act.calls = <<>>
                    /\ engine = act.pre.engine
                    /\ act.post.conn = 0

\* sess.commit() has returned on a session that never connected, while the
\* pool had an idle connection to give
C9_Witness ==
    /\ act.op = "commit"
    /\ act.excOut = "none"
    /\ act.pre.conn = 0
    /\ act.post.conn = 0
    /\ act.pre.engine.pool # <<>>
    /\ engine.pool = act.pre.engine.pool

\* C10: sess.close() on a session that holds a connection calls
\* conn.rollback() first, then gives the connection back to the engine (into
\* the pool and out of the active list, or closed when the engine does not
\* pool); when it returns the session holds no connection and is ended.
C10_CloseReleases ==
    (act.op = "close" /\ act.pre.conn # 0)
        => /\ act.calls # <<>>
           /\ act.calls[1].call = "rollback"
           /\ act.calls[1].conn = act.pre.conn
           /\ act.pre.conn \notin SeqSet(engine.active_conns)
           /\ IF engine.pooling THEN act.pre.conn \in SeqSet(engine.pool)
              ELSE act.pre.conn \in dbapi.closed
           /\ act.excOut = "none" => (act.post.conn = 0 /\ act.post.ended)

\* C11: on a session that has ended, entering a transaction, commit(),
\* rollback(), connect() and the execution of a statement through one of its
\* transactions all raise, and none of them takes a connection from the engine.
C11_EndedSessionFails ==
    (/\ act.pre.ended
     /\ \/ act.op \in {"commit", "rollback", "connect", "tx.execute"}
        \/ act.op = "enter" /\ act.kind = "sess")
        => /\ act.excOut # "none"
           /\ engine = act.pre.engine
           /\ dbapi = act.pre.dbapi

\* C12: when a before-execute receiver returns False the driver's execute or
\* executemany is not called; when the receivers' result is a tuple the driver
\* is called with the statement of that tuple and not with the original one.
C12_BeforeExecuteCancels ==
    fn_res.done
        => /\ (\E i \in DOMAIN fn_arg.rvs : fn_arg.rvs[i] = "False")
                 => fn_res.driver = "none"
           /\ IsTuple(signal_rv(fn_arg.rvs))
                 => /\ fn_res.driver # "none"
                    /\ fn_res.stmt = signal_rv(fn_arg.rvs)

\* C14: the session_context stack of a thread holds only sessions made in
\* that thread, and so does every with-block of the thread: what
\* get_current_session() returns, and what ensure_session() and
\* Engine.__enter__ reuse, is never a session of another thread.
C14_StackPerThread ==
    \A t \in Threads :
        /\ \A i \in DOMAIN stack[t] : sessions[stack[t][i]].owner = t
        /\ \A i \in DOMAIN frames[t] : sessions[frames[t][i].sess].owner = t

\* a thread has reused its current session while another thread had a current
\* session of its own
C14_Witness ==
    /\ act.op = "enter"
    /\ act.kind = "ensure"
    /\ ~act.made
    /\ act.excOut = "none"
    /\ \E t, u \in Threads :
          /\ t # u
          /\ stack[t] # <<>>
          /\ stack[u] # <<>>
          /\ Top(stack[t]) # Top(stack[u])

\* the functions given to after_commit so far
Given == {k \in CallbackIds : callbacks[k].sender # 0}

\* C21: a function given to after_commit in a session has run at most once;
\* it has run once the session's connection has committed since (and the
\* session was not rolled back first), whatever commits followed; it has not
\* run while only other sessions committed; and it has not run if the session
\* was rolled back before that commit.
C21_AfterCommitOnce ==
    \A k \in Given :
        /\ callbacks[k].runs <= 1
        /\ callbacks[k].commits = 0 => callbacks[k].runs = 0
        /\ (callbacks[k].commits >= 1 /\ ~callbacks[k].rolled) => callbacks[k].runs = 1
        /\ callbacks[k].rolled => callbacks[k].runs = 0

\* C22: the transaction that `with engine as tx` yields belongs to a session
\* of that engine (tx.session.engine is engine), also when the thread's
\* current session was made by another engine
C22_EngineTxOwnSession ==
    (act.op = "enter" /\ act.kind = "engine" /\ act.excOut = "none")
        => sessions[act.sess].engine = 1

\* C23: when transaction(engine) is entered with no session active in the
\* thread and its block ends without error, conn.commit() is called, and
\* returns, before the session is closed and the connection released: the
\* work of the block is not rolled back by the closing of the session
C23_TransactionCommits ==
    (/\ act.op = "exit" /\ act.kind = "ensure" /\ act.made /\ ~act.virtual
     /\ act.excIn = "none" /\ act.excOut = "none"
     /\ act.pre.conn # 0 /\ ~act.tx.ended /\ ~act.tx.failed)
        => \E i \in DOMAIN act.calls :
              /\ act.calls[i].call = "commit"
              /\ act.calls[i].ok
              /\ \A j \in 1..(i - 1) : act.calls[j].call \notin {"rollback", "disconnect"}

\* C25: the exit of a `with engine` block that reused the thread's current
\* session does not end that session: it is not ended and keeps its
\* connection. Only a session that the engine block made is closed at its
\* exit.
C25_EngineExitKeepsReusedSession ==
    (/\ act.op = "exit" /\ act.kind = "engine" /\ act.excOut = "none"
     /\ act.sess # 0 /\ ~act.pre.ended)
        => IF act.made THEN act.post.ended
           ELSE ~act.post.ended /\ act.post.conn = act.pre.conn

\* C27: no transaction on a session's stack is ended: a transaction that was
\* committed or rolled back, by tx.commit() or tx.rollback() or by the exit of
\* its scope, is not on the stack any more; and only the transaction on top
\* of the stack accepts execute, commit and rollback (an outermost transaction
\* under a nested one does not).
C27_StackHoldsActiveOnly ==
    /\ \A s \in SessionIds :
          \A i \in DOMAIN sessions[s].transactions :
             ~txs[sessions[s].transactions[i]].ended
    /\ (/\ act.op \in {"tx.execute", "tx.commit", "tx.rollback"}
        /\ ~act.tx.nested /\ ~act.tx.ended /\ act.pre.depth >= 2)
          => act.excOut = "TransactionEndedError"

(***************************************************************************)
(* Claims about the composite row reconstructor                            *)
(***************************************************************************)
\* the rows the result set has taken from its cursor so far
Fetched == SubSeq(rs_input, 1, Len(rs_input) - Len(cursor.rows))

\* the first row of the cursor has no column of a nested group
FirstRowPlain ==
    rs_input # <<>> /\ \A p \in DOMAIN rs_input[1] : Len(p) = 1

\* C15: when the first row of the cursor has no nested column group, the
\* result set raises nothing, switches composition off with that row and keeps
\* it off, holds no pending row, and has emitted one item per row taken from
\* the cursor: the items a plain ResultSet over the same cursor yields, in the
\* same order and with the same contents, and as many once it is finished.
C15_PlainPassThrough ==
    FirstRowPlain
        => LET plain == ResultSetIter(NewResultSet, [rows |-> rs_input, closed |-> FALSE])
           IN  /\ rs.exc = "none"
               /\ rs.current = <<>>
               /\ emitted # <<>> => rs.disable_composition
               /\ Len(emitted) = Len(Fetched)
               /\ Len(emitted) <= Len(plain)
               /\ \A i \in DOMAIN emitted : emitted[i] = RowDict(plain[i])
               /\ rs.done => Len(emitted) = Len(plain)

C15_Witness ==
    /\ FirstRowPlain
    /\ rs.done
    /\ rs.disable_composition
    /\ Len(emitted) >= 2
    /\ emitted[1] # emitted[2]

\* the cursor row is reflected in an emitted entity: its parent id is the
\* entity's, and its child, when it has one, is among the entity's children
RowReflected(row, out) ==
    \E i \in DOMAIN out :
        /\ <<"id">> \in DOMAIN row
               => "id" \in DOMAIN out[i] /\ out[i].id = row[<<"id">>]
        /\ (<<"kids", "id">> \in DOMAIN row /\ row[<<"kids", "id">>] # None)
               => /\ "kids" \in DOMAIN out[i]
                  /\ \E j \in DOMAIN out[i].kids : out[i].kids[j].id = row[<<"kids", "id">>]

\* the step in which the result set lets go of its cursor
Releases == rs.cursor /\ ~rs'.cursor

\* C16: the call that finds the cursor exhausted closes the cursor and emits
\* the pending candidate, if there is one, as one more item and nothing else;
\* every call after it emits nothing and leaves the cursor alone; the
\* iteration of any cursor comes to its end (StopIteration), and by then
\* every row of the cursor is reflected in an emitted entity.
C16_ExhaustionFinalizes ==
    /\ [][Releases => /\ cursor'.closed
                       /\ cursor'.rows = <<>>
                       /\ emitted' = IF rs'.current # <<>>
                                     THEN Append(emitted, compile(rs'.current[1]))
                                     ELSE emitted]_vars
    /\ [][~rs.cursor => emitted' = emitted /\ cursor' = cursor]_vars
    /\ [](rs.done => /\ ~rs.cursor
                      /\ cursor.closed
                      /\ \A i \in DOMAIN rs_input : RowReflected(rs_input[i], emitted))
    /\ <>rs.done

\* what the specification asks of a LEFT JOIN cursor: one entity per run of
\* equal parent id, with the run's non-null children in row order
RECURSIVE ExpectedEntities(_, _)
ExpectedEntities(rows, acc) ==
    IF rows = <<>> THEN acc
    ELSE LET pid == Head(rows)[<<"id">>]
             kid == Head(rows)[<<"kids", "id">>]
             kidlist == IF kid = None THEN <<>> ELSE <<[id |-> kid]>>
         IN  IF acc # <<>> /\ acc[Len(acc)].id = pid
             THEN ExpectedEntities(Tail(rows), [acc EXCEPT ![Len(acc)].kids = @ \o kidlist])
             ELSE ExpectedEntities(Tail(rows), Append(acc, [id |-> pid, kids |-> kidlist]))

\* the rows of one parent are contiguous
Contiguous(rows) ==
    \A i, j \in 1..Len(rows) :
        (i < j /\ rows[i][<<"id">>] = rows[j][<<"id">>])
            => \A l \in i..j : rows[l][<<"id">>] = rows[i][<<"id">>]

IsJoinInput == rs_input # <<>> /\ DOMAIN rs_input[1] = JoinCols

\* C1: over a LEFT JOIN cursor whose rows for one parent are contiguous, the
\* iteration raises nothing and, once finished, has yielded exactly one entity
\* per run of equal parent id, in cursor order, each with its non-null children
\* in row order (an all-null group giving an empty list).
C1_CompositeMergeCorrect ==
    (IsJoinInput /\ Contiguous(rs_input))
        => /\ rs.exc = "none"
           /\ rs.done => emitted = ExpectedEntities(rs_input, <<>>)

\* C26: a row whose identity comes from rowid merges with the next row only
\* when the two identities are equal, for every rowid value, 1 (which equals
\* the always-merge identity True) included: when the first two rows of a
\* LEFT JOIN cursor are of different parents, taking the second one raises
\* nothing and emits the first parent on its own, with no child but the one
\* of its own row.
C26_RowidOneIsNoSentinel ==
    (/\ IsJoinInput /\ Len(rs_input) >= 2 /\ Len(Fetched) >= 2
     /\ rs_input[1][<<"id">>] # rs_input[2][<<"id">>])
        => /\ emitted # <<>>
           /\ emitted[1].id = rs_input[1][<<"id">>]
           /\ "kids" \in DOMAIN emitted[1]
                  => emitted[1].kids = <<[id |-> rs_input[1][<<"kids", "id">>]]>>

\* what the specification asks of a three-level cursor: a row joins the last
\* parent when the parent ids agree, and then its kid joins the last kid of
\* that parent when the kid ids agree (its toy becoming one more toy of that
\* kid) and is a new sibling otherwise
RECURSIVE ExpectedDeep(_, _)
ExpectedDeep(rows, acc) ==
    IF rows = <<>> THEN acc
    ELSE LET pid == Head(rows)[<<"id">>]
             kid == [id |-> Head(rows)[<<"kids", "id">>],
                     toys |-> <<[id |-> Head(rows)[<<"kids", "toys", "id">>]]>>]
             n == Len(acc)
             m == Len(acc[n].kids)
         IN  IF acc # <<>> /\ acc[n].id = pid
             THEN (IF acc[n].kids[m].id = kid.id
                   THEN ExpectedDeep(Tail(rows),
                                     [acc EXCEPT ![n].kids[m].toys = @ \o kid.toys])
                   ELSE ExpectedDeep(Tail(rows), [acc EXCEPT ![n].kids = Append(@, kid)]))
             ELSE ExpectedDeep(Tail(rows), Append(acc, [id |-> pid, kids |-> <<kid>>]))

IsDeepInput == rs_input # <<>> /\ DOMAIN rs_input[1] = DeepCols

\* C28: merge(pending, new) reports success iff the identities at the top
\* level match; on success each nested group of the new row is merged into
\* the last child of the same group when their identities match and is
\* appended as a new sibling otherwise. So the iteration of a parent -> kids
\* -> toys cursor raises nothing and yields one parent per run of equal parent
\* id, with one kid per run of equal kid id and that kid's toys in row order:
\* (1,10,100),(1,10,101),(1,11,102) give one parent 1 with the kids
\* {10, toys 100 101} and {11, toys 102}.
C28_MergeLevelByLevel ==
    IsDeepInput
        => /\ rs.exc = "none"
           /\ rs.done => emitted = ExpectedDeep(rs_input, <<>>)
           /\ Len(Fetched) >= 2
                 => (Truthy(merge(NewCompositeRow(rs_input[1], DeepMap),
                                  NewCompositeRow(rs_input[2], DeepMap)).rv)
                        <=> rs_input[1][<<"id">>] = rs_input[2][<<"id">>])

\* the rows that begin a run of equal parent id
RunStarts(rows) ==
    {i \in DOMAIN rows : i = 1 \/ rows[i][<<"id">>] # rows[i - 1][<<"id">>]}

\* C29: with no rowid configured at a level, a composite row with self
\* columns has a hash of their values as its identity: building the row
\* raises nothing, and two consecutive rows merge iff their self columns are
\* equal, so a finished iteration has yielded one entity per run of equal
\* self columns.
C29_HashIdentity ==
    (IsJoinInput /\ rs.map.rowid = "")
        => /\ \A i \in DOMAIN Fetched : NewCompositeRow(Fetched[i], rs.map).err = "none"
           /\ Fetched # <<>> => rs.exc = "none"
           /\ rs.done => /\ Len(emitted) = Cardinality(RunStarts(rs_input))
                          /\ \A i \in DOMAIN emitted : emitted[i].id \in IdVals

(***************************************************************************)
(* Claims about the SQL composition                                        *)
(***************************************************************************)
Distinct(q) == \A i, j \in DOMAIN q : i # j => q[i] # q[j]

\* the parameters a ParameterCollector was created from
Seeded == fn_arg.params.items

\* C18: after any sequence of add calls on a collector, fresh or created from
\* the caller's params, the recorded names are pairwise distinct; every value
\* recorded so far, the caller's included, is still stored where it was put;
\* in the named styles the placeholders returned are pairwise distinct; and
\* in the positional styles a fresh collector holds as many values as there
\* were add calls.
C18_CollectorNamesUnique ==
    LET c == fn_res.c
        adds == fn_res.adds
    IN  c.exc = "none" =>
        /\ Distinct(c.names)
        /\ Len(c.names) = Len(Seeded) + Len(adds)
        /\ c.isdict
              => /\ DOMAIN c.dict = SeqSet(c.names)
                 /\ \A i \in DOMAIN Seeded : c.dict[Seeded[i].name] = Seeded[i].value
                 /\ \A i \in DOMAIN adds : c.dict[adds[i].recorded] = adds[i].value
                 /\ Distinct([i \in DOMAIN adds |-> adds[i].rv])
        /\ ~c.isdict
              => /\ c.values = [i \in DOMAIN Seeded |-> Seeded[i].value]
                                    \o [i \in DOMAIN adds |-> adds[i].value]
                 /\ Seeded = <<>> => Len(c.values) = Len(adds)

\* a collector created from the caller's params has been given a name that is
\* taken, the same name twice and an unnamed parameter
C18_Witness ==
    /\ Len(fn_res.adds) = MaxAdds
    /\ Seeded # <<>>
    /\ fn_res.adds[1].name = Seeded[1].name
    /\ fn_res.adds[2].name = fn_res.adds[1].name
    /\ fn_res.adds[2].value # fn_res.adds[1].value
    /\ fn_res.adds[3].name = NoName
    /\ fn_res.adds[1].recorded = Suffixed(fn_res.adds[1].name, 1)
    /\ fn_res.adds[2].recorded = Suffixed(fn_res.adds[1].name, 2)

\* C17: And([]) and Or([]) are false and render to the empty text, and a
\* statement that embeds one, or adds it with `if cond: stmt = stmt.where(cond)`,
\* has the text of the statement without it.
C17_EmptyCombinatorRendersNothing ==
    (fn_res.done /\ fn_arg.fn = "where" /\ fn_arg.items = <<>>)
        => LET cond == Combined(fn_arg.comb, fn_arg.items)
           IN  /\ ~Bool(cond)
               /\ RenderStmt(cond, fn_arg.paramstyle).text = <<>>
               /\ fn_res.text = IF fn_arg.embed = "alone" THEN <<>>
                                 ELSE RenderStmt(BaseStmt, fn_arg.paramstyle).text

\* the comparisons of the statement a compare program built
Compared ==
    IF fn_arg.comb = "none" THEN <<[cmp |-> fn_arg.l, node |-> fn_res.stmt]>>
    ELSE <<[cmp |-> fn_arg.l, node |-> fn_res.stmt.items[1]],
           [cmp |-> fn_arg.r, node |-> fn_res.stmt.items[2]]>>

\* C19: in a statement built with the comparison, membership and pattern
\* operators, a right operand that is not an SQL node has become a Parameter
\* holding it and one that is a node is embedded as it is; no word of the
\* rendered text is a parameter value; the values are what the rendering
\* returns as params; and the same program run with any other values renders
\* to the same text.
C19_ValuesStayOutOfText ==
    (fn_res.done /\ fn_arg.fn = "compare")
        => /\ \A i \in DOMAIN Compared :
                  Compared[i].node.parts[3] =
                      IF Compared[i].cmp.rhs = "node" THEN SQL(<<PyStr("other")>>)
                      ELSE Parameter(fn_arg.env[Compared[i].cmp.rhs], NoName)
           /\ \A i \in DOMAIN fn_res.text : fn_res.text[i].s \notin ParamValues
           /\ LET given == [i \in DOMAIN Compared |-> Compared[i].cmp.rhs]
                   vals == [i \in DOMAIN given |->
                               IF given[i] = "node" THEN "" ELSE fn_arg.env[given[i]]]
                   passed == IF fn_arg.paramstyle \in {"named", "pyformat"}
                             THEN {fn_res.params[n] : n \in DOMAIN fn_res.params}
                             ELSE SeqSet(fn_res.params)
               IN  passed = SeqSet(vals) \ {""}
           /\ \A env \in [{"x", "y"} -> ParamValues] :
                  RenderStmt(CompareStmt(fn_arg, env), fn_arg.paramstyle).text = fn_res.text

\* two comparisons with different values were joined and rendered with named
\* placeholders
C19_Witness ==
    /\ fn_res.done
    /\ fn_arg.fn = "compare"
    /\ fn_arg.comb = "And"
    /\ fn_arg.l.rhs = "x"
    /\ fn_arg.r.rhs = "y"
    /\ fn_arg.env["x"] # fn_arg.env["y"]
    /\ fn_arg.paramstyle = "pyformat"
    /\ Len(fn_res.text) = 9
    /\ fn_res.text[4] # fn_res.text[8]

\* C20: SQL.insert, SQL.update, Mapper.insert and Mapper.update called with
\* an empty mapping of column values, and Mapper.delete with no primary key
\* value, return None: no statement and no exception.
C20_EmptyMappingNoStatement ==
    (/\ fn_res.done
     /\ fn_arg.fn \in {"SQL.insert", "SQL.update", "Mapper.insert", "Mapper.update",
                        "Mapper.delete"}
     /\ IF fn_arg.fn = "Mapper.delete" THEN fn_arg.pk = "" ELSE fn_arg.values = <<>>)
        => fn_res.stmt = PyNone

\* the parts of the statement that render as a placeholder, in tree order
Holders == SelectSeq(fn_arg.parts, LAMBDA x : x.k \in {"Parameter", "ParameterPlaceholder"})

\* the names the caller's params are known by
SeededNames == SeqSet(NewParameterCollector(fn_arg.params, fn_arg.paramstyle).names)

\* every ParameterPlaceholder of the statement names one of the caller's
\* params, and each of the caller's params is named by one ParameterPlaceholder
AllSeeded ==
    /\ \A i \in DOMAIN Holders :
          Holders[i].k = "ParameterPlaceholder" => Holders[i].name \in SeededNames
    /\ \A n \in SeededNames :
          Cardinality({i \in DOMAIN Holders : Holders[i] = ParameterPlaceholder(n)}) = 1

\* C30: in the positional styles, a statement of literals, Parameter and
\* ParameterPlaceholder nodes rendered with the caller's params (list or
\* mapping) has one placeholder per such node, and the k-th placeholder of
\* the text is bound to the k-th element of the params returned: the value
\* of the caller's param of that name for a ParameterPlaceholder, its own
\* value for a Parameter, whatever their order in the tree.
C30_PositionalBinding ==
    (fn_res.done /\ AllSeeded)
        => LET c0 == NewParameterCollector(fn_arg.params, fn_arg.paramstyle)
               marks == SelectSeq(fn_res.text, LAMBDA word : word.fmt # "")
           IN  /\ Len(marks) = Len(Holders)
               /\ \A i \in DOMAIN Holders :
                     /\ i <= Len(fn_res.params)
                     /\ fn_res.params[i] =
                            IF Holders[i].k = "Parameter" THEN Holders[i].value
                            ELSE ParameterCollectorGet(c0, Holders[i].name)

====
